---- MODULE Spec2Model ----
(***************************************************************************)
(* Airtable MCP server (src/airtable_mcp_server.py): the lazily built      *)
(* global client, the transport methods of AirtableClient and the tool     *)
(* entry points that validate, delegate and build the                      *)
(* {data, error, successful} envelope.                                     *)
(*                                                                         *)
(* Python strings are sequences of string fragments (a caller's argument   *)
(* is a sequence of characters, a message a sequence of literal pieces and *)
(* interpolated values).  JSON values are tagged records [t, v].           *)
(***************************************************************************)
EXTENDS Integers, Sequences, FiniteSets, TLC

VARIABLES
    env_api_key,      \* os.environ['AIRTABLE_API_KEY']: [set, value]
    hash_seed,        \* the interpreter's string-hash seed, fixed per process
    airtable_client,  \* the module global
    pc,               \* "idle": waiting for a tool call; "returned": envelope handed back
    invocation,       \* [tool, args] of the tool call that last ran
    envelope,         \* the dict that call returned
    calls,            \* outbound HTTP calls issued by that call, in order
    raised,           \* the exception caught at the tool boundary, if any
    exit,             \* which return statement ended the call
    upstream_records, \* what a storing upstream holds: request URL -> record
    tasks,            \* the tool coroutines scheduled on the event loop: [at, ...]
    running           \* the coroutine the loop's thread is executing, 0 for none

vars ==
    <<env_api_key, hash_seed, airtable_client, pc, invocation, envelope, calls, raised, exit,
      upstream_records, tasks, running>>

----------------------------------------------------------------------------
(* Bounds *)

\* longest JSON array a caller passes (the code's limit for bulk delete is 10)
MaxEntries == 11
\* longest JSON array whose entries are enumerated in every combination
MaxShort == 2
\* longest list in an upstream success body
MaxBodyList == 2
\* requests in flight on the event loop at once
MaxTasks == 2

----------------------------------------------------------------------------
(* Python strings *)

Whitespace == {" "}

RECURSIVE lstrip(_)
lstrip(s) == IF s # <<>> /\ Head(s) \in Whitespace THEN lstrip(Tail(s)) ELSE s

RECURSIVE rstrip(_)
rstrip(s) == IF s # <<>> /\ s[Len(s)] \in Whitespace THEN rstrip(SubSeq(s, 1, Len(s) - 1)) ELSE s

\* str.strip()
strip(s) == rstrip(lstrip(s))

\* the test "not x or not x.strip()" of every required parameter
is_blank(s) == s = <<>> \/ strip(s) = <<>>

\* f"{s}" of a sequence of fragments: concatenation keeps the fragments
Mentions(msg, fragment) == \E i \in 1..Len(msg) : msg[i] = fragment

----------------------------------------------------------------------------
(* JSON values and json.loads *)

EmptyDict == [k \in {} |-> 0]

Null == [t |-> "null", v |-> 0]
Num(n) == [t |-> "num", v |-> n]
Str(s) == [t |-> "str", v |-> s]
Arr(s) == [t |-> "arr", v |-> s]
Obj(r) == [t |-> "obj", v |-> r]

\* a JSON text handed in as a Python string, or received as a response body
EmptyText == [k |-> "empty", err |-> <<>>, doc |-> Null]
SpacesText == [k |-> "spaces", err |-> <<>>, doc |-> Null]
Malformed(msg) == [k |-> "malformed", err |-> <<msg>>, doc |-> Null]
Text(doc) == [k |-> "json", err |-> <<>>, doc |-> doc]

ExpectingValue == "Expecting value: line 1 column 1 (char 0)"
ExpectingName == "Expecting property name enclosed in double quotes: line 1 column 2 (char 1)"

\* "not x or not x.strip()" of a JSON-string parameter
text_is_blank(x) == x.k \in {"empty", "spaces"}

\* json.loads whose JSONDecodeError always carries the same text
json_loads_fixed_message(x) ==
    IF x.k = "json" THEN [raised |-> FALSE, value |-> x.doc, msg |-> <<>>]
    ELSE [raised |-> TRUE, value |-> Null, msg |-> <<ExpectingValue>>]

\* json.loads: the decoded value, or JSONDecodeError with the decoder's message
json_loads(x) ==
    IF x.k = "json" THEN [raised |-> FALSE, value |-> x.doc, msg |-> <<>>]
    ELSE IF x.k = "malformed" THEN [raised |-> TRUE, value |-> Null, msg |-> x.err]
    ELSE [raised |-> TRUE, value |-> Null, msg |-> <<ExpectingValue>>]

\* isinstance(x, list) / isinstance(x, dict) / isinstance(x, str)
is_list(x) == x.t = "arr"
is_dict(x) == x.t = "obj"
is_str(x) == x.t = "str"

\* d.get(key, default) on a decoded JSON object
dict_get(d, key, default) == IF key \in DOMAIN d.v THEN d.v[key] ELSE default

\* "key in d"
has_key(d, key) == key \in DOMAIN d.v

\* the name Python prints for the type of a decoded JSON value
type_name(x) ==
    CASE x.t = "arr" -> "list"
      [] x.t = "obj" -> "dict"
      [] x.t = "str" -> "str"
      [] x.t = "num" -> "int"
      [] OTHER -> "NoneType"

----------------------------------------------------------------------------
(* Exceptions *)

NoException == [type |-> "None", error_type |-> <<>>, message |-> <<>>, status_code |-> 0]

Exception(type, message) ==
    [type |-> type, error_type |-> <<>>, message |-> message, status_code |-> 0]

AirtableAPIError(error_type, message, status_code) ==
    [type |-> "AirtableAPIError", error_type |-> error_type, message |-> message,
     status_code |-> status_code]

\* str(e): AirtableAPIError passes its own text to Exception.__init__
str(e) ==
    IF e.type = "AirtableAPIError"
    THEN <<"Airtable API Error (">> \o e.error_type \o <<"): ">> \o e.message
    ELSE e.message

\* x.get(...) on a value that is not a dict
AttributeError(x) ==
    Exception("AttributeError", <<"'", type_name(x), "' object has no attribute 'get'">>)

\* len(x) on a value without a length
TypeError(x) ==
    Exception("TypeError", <<"object of type '", type_name(x), "' has no len()">>)

----------------------------------------------------------------------------
(* The global client *)

None == [tag |-> "None"]

\* nth: which AirtableClient object of the process this is (its identity)
AirtableClient__init__(api_key, nth) ==
    [tag |-> "AirtableClient",
     nth |-> nth,
     api_key |-> api_key,
     base_url |-> <<"https://api.airtable.com/v0">>,
     headers |-> [Authorization |-> <<"Bearer ">> \o api_key,
                  ContentType |-> <<"application/json">>]]

\* os.getenv: None when the variable is unset
getenv(env) == IF env.set THEN env.value ELSE <<>>

\* the AirtableClient objects constructed so far
constructed(client) == IF client = None THEN 0 ELSE client.nth

\* get_airtable_client() without the "is None" test: a client per call
get_airtable_client_always_new(client, env) ==
    IF ~env.set \/ env.value = <<>>
    THEN [raised |-> TRUE, client |-> client,
          exc |-> Exception("ValueError",
                            <<"AIRTABLE_API_KEY environment variable is required">>)]
    ELSE [raised |-> FALSE,
          client |-> AirtableClient__init__(getenv(env), constructed(client) + 1),
          exc |-> NoException]

\* get_airtable_client() that takes only an unset variable for a missing key
get_airtable_client_none_only(client, env) ==
    IF client = None
    THEN IF ~env.set
         THEN [raised |-> TRUE, client |-> client,
               exc |-> Exception("ValueError",
                                 <<"AIRTABLE_API_KEY environment variable is required">>)]
         ELSE [raised |-> FALSE,
               client |-> AirtableClient__init__(getenv(env), constructed(client) + 1),
               exc |-> NoException]
    ELSE [raised |-> FALSE, client |-> client, exc |-> NoException]

\* get_airtable_client() that remembers a failed acquisition in the global
get_airtable_client_sticky(client, env) ==
    IF client = None
    THEN IF ~env.set \/ env.value = <<>>
         THEN [raised |-> TRUE, client |-> [tag |-> "Failed"],
               exc |-> Exception("ValueError",
                                 <<"AIRTABLE_API_KEY environment variable is required">>)]
         ELSE [raised |-> FALSE,
               client |-> AirtableClient__init__(getenv(env), constructed(client) + 1),
               exc |-> NoException]
    ELSE IF client.tag = "Failed"
    THEN [raised |-> TRUE, client |-> client,
          exc |-> Exception("ValueError",
                            <<"AIRTABLE_API_KEY environment variable is required">>)]
    ELSE [raised |-> FALSE, client |-> client, exc |-> NoException]

\* get_airtable_client(): the client to use and the new value of the global
get_airtable_client(client, env) ==
    IF client = None
    THEN IF ~env.set \/ env.value = <<>>
         THEN [raised |-> TRUE, client |-> client,
               exc |-> Exception("ValueError",
                                 <<"AIRTABLE_API_KEY environment variable is required">>)]
         ELSE [raised |-> FALSE,
               client |-> AirtableClient__init__(getenv(env), constructed(client) + 1),
               exc |-> NoException]
    ELSE [raised |-> FALSE, client |-> client, exc |-> NoException]

----------------------------------------------------------------------------
(* The upstream service and the requests library *)

\* what comes back for one outbound call
Response(status, reason, text) ==
    [t |-> "response", status |-> status, reason |-> reason, text |-> text, exc |-> ""]

\* no HTTP response at all: requests raises ConnectionError or Timeout
NoResponse(exc) ==
    [t |-> "no_response", status |-> 0, reason |-> "", text |-> EmptyText, exc |-> exc]

\* response.raise_for_status() raises HTTPError for 4xx and 5xx
raises_for_status(status) == status >= 400 /\ status < 600

\* str(HTTPError) as requests words it
HTTPError_str(up, url) ==
    <<ToString(up.status),
      IF up.status < 500 THEN " Client Error: " ELSE " Server Error: ",
      up.reason, " for url: ">> \o url

\* response.json() on a body that is not JSON raises
\* requests.exceptions.JSONDecodeError, a RequestException since requests
\* 2.27; older releases let the decoder's ValueError through
Builds == {"requests>=2.27", "requests<2.27"}

----------------------------------------------------------------------------
(* AirtableClient: the transport methods *)

Timeout_thirty == 10 + 20

Timeout == 10

Returned(call, value) ==
    [called |-> TRUE, call |-> call, raised |-> FALSE, exc |-> NoException, value |-> value]

Raised(call, exc) ==
    [called |-> TRUE, call |-> call, raised |-> TRUE, exc |-> exc, value |-> Null]

\* the "except HTTPError" handler of every method
except_HTTPError(call, up, url) ==
    LET decoded == json_loads(up.text)
        error_response == IF decoded.raised THEN Obj(EmptyDict) ELSE decoded.value
    IN  IF ~is_dict(error_response) THEN Raised(call, AttributeError(error_response))
        ELSE LET error == dict_get(error_response, "error", Obj(EmptyDict))
             IN  IF ~is_dict(error) THEN Raised(call, AttributeError(error))
                 ELSE LET error_code == dict_get(error, "type", Str(<<"unknown_error">>)).v
                          error_message == dict_get(error, "message",
                                                    Str(HTTPError_str(up, url))).v
                      IN  Raised(call, AirtableAPIError(error_code, error_message, up.status))

\* the try/except block with a kind of its own for a timeout
send_timeout_kind(self, method, url, params, payload, up, build) ==
    LET call == [request |-> [method |-> method, url |-> url, headers |-> self.headers,
                              params |-> params, json |-> payload, timeout |-> Timeout],
                 response |-> up]
    IN  IF up.t = "no_response" /\ up.exc = "ReadTimeout"
        THEN Raised(call, AirtableAPIError(<<"timeout_error">>,
                                           <<"Request timed out: ", up.exc>>, 0))
        ELSE IF up.t = "no_response"
        THEN Raised(call, AirtableAPIError(<<"network_error">>,
                                           <<"Network error: ", up.exc>>, 0))
        ELSE IF raises_for_status(up.status)
        THEN except_HTTPError(call, up, url)
        ELSE LET decoded == json_loads(up.text)
             IN  IF ~decoded.raised THEN Returned(call, decoded.value)
                 ELSE IF build = "requests>=2.27"
                 THEN Raised(call, AirtableAPIError(<<"network_error">>,
                                                    <<"Network error: ">> \o decoded.msg, 0))
                 ELSE Raised(call, Exception("JSONDecodeError", decoded.msg))

\* the try/except block every method wraps around its one requests call
send(self, method, url, params, payload, up, build) ==
    LET call == [request |-> [method |-> method, url |-> url, headers |-> self.headers,
                              params |-> params, json |-> payload, timeout |-> Timeout],
                 response |-> up]
    IN  IF up.t = "no_response"
        THEN Raised(call, AirtableAPIError(<<"network_error">>,
                                           <<"Network error: ", up.exc>>, 0))
        ELSE IF raises_for_status(up.status)
        THEN except_HTTPError(call, up, url)
        ELSE LET decoded == json_loads(up.text)
             IN  IF ~decoded.raised THEN Returned(call, decoded.value)
                 ELSE IF build = "requests>=2.27"
                 THEN Raised(call, AirtableAPIError(<<"network_error">>,
                                                    <<"Network error: ">> \o decoded.msg, 0))
                 ELSE Raised(call, Exception("JSONDecodeError", decoded.msg))

NoParams == EmptyDict
NoBody == Null

\* hash(name): Python salts str hashes with a per-process seed; the value
\* may be negative, % 1000000 brings it into 0..999999
hash(seed, name) ==
    LET code(c) == IF c = " " THEN 32 ELSE 97
        RECURSIVE h(_, _)
        h(acc, s) == IF s = <<>> THEN acc
                     ELSE h((acc * 31 + code(Head(s)) + 7919 * seed) % 7999993, Tail(s))
    IN  h(seed * 40503 + 17, name) - 3999996

ManualCreationNote ==
    <<"Base configuration validated successfully. Note: ",
      "Airtable API does not support programmatic base creation",
      ". This configuration can be used to ",
      "manually create the base",
      " in the Airtable interface.">>

AirtableClient_create_base(self, seed, name, tables, workspace_id) ==
    [called |-> FALSE, call |-> EmptyDict, raised |-> FALSE, exc |-> NoException,
     value |-> Obj([base |-> Obj([id |-> Str(<<"app", ToString(hash(seed, name) % 1000000)>>),
                                  name |-> Str(name),
                                  permissionLevel |-> Str(<<"create">>)]),
                    message |-> Str(ManualCreationNote)])]

AirtableClient_create_comment(self, base_id, record_id, table_id_or_name, text, up, build) ==
    LET url == self.base_url \o <<"/">> \o base_id \o <<"/">> \o table_id_or_name
               \o <<"/">> \o record_id \o <<"/comments">>
    IN  send(self, "POST", url, NoParams, [text |-> text], up, build)

FieldTypesWithOptions_with_default == {<<"singleLineText">>, <<"singleSelect">>}

FieldTypesWithOptions ==
    {<<"singleSelect">>, <<"multipleSelects">>, <<"number">>, <<"date">>, <<"dateTime">>,
     <<"checkbox">>, <<"rating">>, <<"currency">>, <<"percent">>, <<"phoneNumber">>,
     <<"email">>, <<"url">>, <<"multilineText">>, <<"richText">>, <<"attachment">>,
     <<"barcode">>, <<"rollup">>, <<"lookup">>, <<"formula">>, <<"button">>,
     <<"autoNumber">>, <<"createdTime">>, <<"lastModifiedTime">>, <<"createdBy">>,
     <<"lastModifiedBy">>}

AirtableClient_create_field(self, base_id, table_id, name, field_type, description, options, up, build) ==
    LET url == self.base_url \o <<"/meta/bases/">> \o base_id \o <<"/tables/">> \o table_id
               \o <<"/fields">>
        keys == {"name", "type"}
                \cup (IF description # <<>> THEN {"description"} ELSE {})
                \cup (IF DOMAIN options.v # {} /\ field_type \in FieldTypesWithOptions
                      THEN {"options"} ELSE {})
        payload == [k \in keys |->
                       CASE k = "name" -> Str(name)
                         [] k = "type" -> Str(field_type)
                         [] k = "description" -> Str(description)
                         [] OTHER -> options]
    IN  send(self, "POST", url, NoParams, payload, up, build)

AirtableClient_create_multiple_records(self, base_id, table_id_or_name, records, up, build) ==
    LET url == self.base_url \o <<"/">> \o base_id \o <<"/">> \o table_id_or_name
    IN  send(self, "POST", url, NoParams, [records |-> records], up, build)

AirtableClient_create_record(self, base_id, table_id_or_name, fields, up, build) ==
    LET url == self.base_url \o <<"/">> \o base_id \o <<"/">> \o table_id_or_name
    IN  send(self, "POST", url, NoParams, [fields |-> fields], up, build)

AirtableClient_create_table(self, base_id, name, fields, description, up, build) ==
    LET url == self.base_url \o <<"/meta/bases/">> \o base_id \o <<"/tables">>
        keys == {"name", "fields"} \cup (IF description # <<>> THEN {"description"} ELSE {})
        payload == [k \in keys |->
                       CASE k = "name" -> Str(name)
                         [] k = "fields" -> fields
                         [] OTHER -> Str(description)]
    IN  send(self, "POST", url, NoParams, payload, up, build)

AirtableClient_get_base_schema(self, base_id, up, build) ==
    LET url == self.base_url \o <<"/meta/bases/">> \o base_id \o <<"/tables">>
    IN  send(self, "GET", url, NoParams, NoBody, up, build)

AirtableClient_get_record(self, base_id, table_id_or_name, record_id, cell_format, return_fields_by_field_id, up, build) ==
    LET url == self.base_url \o <<"/">> \o base_id \o <<"/">> \o table_id_or_name
               \o <<"/">> \o record_id
        keys == (IF cell_format # <<"json">> THEN {"cellFormat"} ELSE {})
                \cup (IF return_fields_by_field_id THEN {"returnFieldsByFieldId"} ELSE {})
        params == [k \in keys |-> IF k = "cellFormat" THEN cell_format ELSE <<"true">>]
    IN  send(self, "GET", url, params, NoBody, up, build)

AirtableClient_get_user_info(self, up, build) ==
    send(self, "GET", self.base_url \o <<"/meta/whoami">>, NoParams, NoBody, up, build)

AirtableClient_list_bases(self, up, build) ==
    send(self, "GET", self.base_url \o <<"/meta/bases">>, NoParams, NoBody, up, build)

AirtableClient_list_comments(self, base_id, table_id_or_name, record_id, up, build) ==
    LET url == self.base_url \o <<"/">> \o base_id \o <<"/">> \o table_id_or_name
               \o <<"/">> \o record_id \o <<"/comments">>
    IN  send(self, "GET", url, NoParams, NoBody, up, build)

AirtableClient_delete_comment(self, base_id, table_id_or_name, record_id, row_comment_id, up, build) ==
    LET url == self.base_url \o <<"/">> \o base_id \o <<"/">> \o table_id_or_name
               \o <<"/">> \o record_id \o <<"/comments/">> \o row_comment_id
    IN  send(self, "DELETE", url, NoParams, NoBody, up, build)

AirtableClient_delete_record(self, base_id, table_id_or_name, record_id, up, build) ==
    LET url == self.base_url \o <<"/">> \o base_id \o <<"/">> \o table_id_or_name
               \o <<"/">> \o record_id
    IN  send(self, "DELETE", url, NoParams, NoBody, up, build)

\* "&".join(f"records[]={record_id}" for each id)
RECURSIVE join_record_params(_)
join_record_params(ids) ==
    IF ids = <<>> THEN <<>>
    ELSE <<"records[]=">> \o Head(ids).v
         \o (IF Tail(ids) = <<>> THEN <<>> ELSE <<"&">> \o join_record_params(Tail(ids)))

AirtableClient_delete_multiple_records_json_body(self, base_id, table_id_or_name, record_ids, up, build) ==
    LET url == self.base_url \o <<"/">> \o base_id \o <<"/">> \o table_id_or_name
    IN  send(self, "DELETE", url, NoParams, [records |-> record_ids], up, build)

AirtableClient_delete_multiple_records(self, base_id, table_id_or_name, record_ids, up, build) ==
    LET path == self.base_url \o <<"/">> \o base_id \o <<"/">> \o table_id_or_name
        query_string == join_record_params(record_ids.v)
        url == IF query_string # <<>> THEN path \o <<"?">> \o query_string ELSE path
    IN  send(self, "DELETE", url, NoParams, NoBody, up, build)

AirtableClient_update_record(self, base_id, table_id_or_name, record_id, fields, return_fields_by_field_id, up, build) ==
    LET url == self.base_url \o <<"/">> \o base_id \o <<"/">> \o table_id_or_name
               \o <<"/">> \o record_id
        keys == IF return_fields_by_field_id THEN {"returnFieldsByFieldId"} ELSE {}
        params == [k \in keys |-> <<"true">>]
    IN  send(self, "PATCH", url, params, [fields |-> fields], up, build)

AirtableClient_update_multiple_records(self, base_id, table_id_or_name, records, up, build) ==
    LET url == self.base_url \o <<"/">> \o base_id \o <<"/">> \o table_id_or_name
    IN  send(self, "PATCH", url, NoParams, [records |-> records], up, build)

DefaultPageSize_fifty == 100 - 50

\* the defaults below which list_records sends no query parameter
DefaultPageSize == 100

\* "max_records and max_records > 0": an int is compared, None and 0 are
\* skipped, any other value makes the comparison raise
truthy(x) == ~(x.t = "null" \/ (x.t = "num" /\ x.v = 0) \/ (x.t \in {"str", "arr"} /\ x.v = <<>>))

\* a method that raised before its try block and its request
RaisedEarly(exc) ==
    [called |-> FALSE, call |-> EmptyDict, raised |-> TRUE, exc |-> exc, value |-> Null]

\* p: the keyword arguments of list_records
AirtableClient_list_records(self, base_id, table_id_or_name, p, up, build) ==
    IF truthy(p.max_records) /\ p.max_records.t # "num"
    THEN RaisedEarly(Exception("TypeError",
                               <<"'>' not supported between instances of '",
                                 type_name(p.max_records), "' and 'int'">>))
    ELSE
    LET url == self.base_url \o <<"/">> \o base_id \o <<"/">> \o table_id_or_name
        keys == (IF p.cell_format # <<"json">> THEN {"cellFormat"} ELSE {})
                \cup (IF p.fields.v # <<>> THEN {"fields[]"} ELSE {})
                \cup (IF p.filter_by_formula # <<>> THEN {"filterByFormula"} ELSE {})
                \cup (IF truthy(p.max_records) /\ p.max_records.v > 0
                      THEN {"maxRecords"} ELSE {})
                \cup (IF p.offset # <<>> THEN {"offset"} ELSE {})
                \cup (IF p.page_size # DefaultPageSize THEN {"pageSize"} ELSE {})
                \cup (IF p.record_metadata.v # <<>> THEN {"recordMetadata[]"} ELSE {})
                \cup (IF p.return_fields_by_field_id THEN {"returnFieldsByFieldId"} ELSE {})
                \cup (IF p.sort.v # <<>> THEN {"sort[]"} ELSE {})
                \cup (IF p.time_zone # <<"utc">> THEN {"timeZone"} ELSE {})
                \cup (IF p.user_locale # <<>> THEN {"userLocale"} ELSE {})
                \cup (IF p.view # <<>> THEN {"view"} ELSE {})
        params == [k \in keys |->
                      CASE k = "cellFormat" -> Str(p.cell_format)
                        [] k = "fields[]" -> p.fields
                        [] k = "filterByFormula" -> Str(p.filter_by_formula)
                        [] k = "maxRecords" -> p.max_records
                        [] k = "offset" -> Str(p.offset)
                        [] k = "pageSize" -> Num(p.page_size)
                        [] k = "recordMetadata[]" -> p.record_metadata
                        [] k = "returnFieldsByFieldId" -> Str(<<"true">>)
                        [] k = "sort[]" -> p.sort
                        [] k = "timeZone" -> Str(p.time_zone)
                        [] k = "userLocale" -> Str(p.user_locale)
                        [] OTHER -> Str(p.view)]
    IN  send(self, "GET", url, params, NoBody, up, build)

----------------------------------------------------------------------------
(* Tool layer: what every entry point shares *)

\* the context one tool call runs in: the globals it reads and what the
\* outside world answers to the call it may issue
Context(client, env, seed, up, build) ==
    [client |-> client, env |-> env, seed |-> seed, up |-> up, build |-> build]

Envelope(data, error, successful) ==
    [data |-> data, error |-> error, successful |-> successful]

\* a validation return: {"data": {}, "error": msg, "successful": False};
\* issued: the calls that went out before it
Invalid(client, issued, msg) ==
    [envelope |-> Envelope(EmptyDict, msg, FALSE), client |-> client, calls |-> issued,
     raised |-> NoException, exit |-> "validation"]

\* the final return with the flag of airtable_create_base copied into it
Success_flag_false(client, issued, data) ==
    [envelope |-> Envelope(data, <<>>, FALSE), client |-> client, calls |-> issued,
     raised |-> NoException, exit |-> "success"]

\* the final return of the try block
Success(client, issued, data) ==
    [envelope |-> Envelope(data, <<>>, TRUE), client |-> client, calls |-> issued,
     raised |-> NoException, exit |-> "success"]

\* a create_base that reports its validated configuration as a success
Validated_flag_true(client, issued, data) ==
    [envelope |-> Envelope(data, <<>>, TRUE), client |-> client, calls |-> issued,
     raised |-> NoException, exit |-> "success"]

\* the final return of airtable_create_base: populated data, no error, and
\* successful False all the same
Validated(client, issued, data) ==
    [envelope |-> Envelope(data, <<>>, FALSE), client |-> client, calls |-> issued,
     raised |-> NoException, exit |-> "success"]

except_Exception_reraise(client, issued, e) ==
    [envelope |-> Envelope(EmptyDict, <<>>, FALSE), client |-> client, calls |-> issued,
     raised |-> e, exit |-> "raised"]

\* "except Exception as e"
except_Exception(client, issued, e) ==
    [envelope |-> Envelope(EmptyDict, <<"Unexpected error: ">> \o str(e), FALSE),
     client |-> client, calls |-> issued, raised |-> e, exit |-> "except Exception"]

\* the curated text of "except AirtableAPIError as e" in airtable_create_base
api_error_message(e) ==
    <<"Airtable API Error: ">> \o e.error_type \o
    (CASE e.error_type = <<"AUTHENTICATION_REQUIRED">> ->
            <<"\n\nAuthentication failed. Please check your AIRTABLE_API_KEY.">>
       [] e.error_type = <<"INVALID_API_KEY">> ->
            <<"\n\nInvalid API key. Please check your AIRTABLE_API_KEY.">>
       [] e.error_type = <<"INSUFFICIENT_PERMISSIONS">> ->
            <<"\n\nInsufficient permissions to create bases. Check your API key permissions.">>
       [] e.error_type = <<"WORKSPACE_NOT_FOUND">> ->
            <<"\n\nThe specified workspace was not found or you don't have access to it.">>
       [] e.error_type = <<"timeout_error">> ->
            <<"\n\nRequest timed out. The Airtable API is taking too long to respond. This might be due to high server load or network issues.">>
       [] e.error_type = <<"network_error">> ->
            <<"\n\nNetwork connectivity issue. Please check your internet connection.">>
       [] OTHER -> <<"\n\nUnexpected error: ">> \o e.message)

except_AirtableAPIError(client, issued, e) ==
    [envelope |-> Envelope(EmptyDict, api_error_message(e), FALSE),
     client |-> client, calls |-> issued, raised |-> e, exit |-> "except AirtableAPIError"]

calls_of_retried(r) ==
    IF r.called THEN (IF r.raised THEN <<r.call, r.call>> ELSE <<r.call>>) ELSE <<>>

\* the calls a transport method issued: one, or none for create_base
calls_of(r) == IF r.called THEN <<r.call>> ELSE <<>>

\* len(x)
has_len(x) == x.t \in {"arr", "str", "obj"}
len_capped(x) == IF x.t = "obj" THEN Cardinality(DOMAIN x.v) ELSE IF x.v = <<>> THEN 0 ELSE 1

len(x) == IF x.t = "obj" THEN Cardinality(DOMAIN x.v) ELSE Len(x.v)

\* the position of the first flagged entry counted from 1
RECURSIVE first_flagged_one_based(_, _)
first_flagged_one_based(flags, i) ==
    IF i > Len(flags) THEN -1
    ELSE IF flags[i] THEN i
    ELSE first_flagged_one_based(flags, i + 1)

\* "for i, x in enumerate(xs): if <bad>: return": the first index whose flag
\* is set, counted from 0, or -1 when the loop runs to its end
RECURSIVE first_flagged(_, _)
first_flagged(flags, i) ==
    IF i > Len(flags) THEN -1
    ELSE IF flags[i] THEN i - 1
    ELSE first_flagged(flags, i + 1)

----------------------------------------------------------------------------
(* Tool entry points.  a: the arguments of the call, g: its Context *)

airtable_create_base(a, g) ==
    LET c == get_airtable_client(g.client, g.env)
    IN  IF c.raised THEN except_Exception(c.client, <<>>, c.exc)
        ELSE IF is_blank(a.name) THEN Invalid(c.client, <<>>, <<"Base name is required">>)
        ELSE IF is_blank(a.workspace_id) THEN Invalid(c.client, <<>>, <<"Workspace ID is required">>)
        ELSE IF text_is_blank(a.tables)
        THEN Invalid(c.client, <<>>, <<"Tables configuration is required">>)
        ELSE
        LET decoded == json_loads(a.tables)
            tables_list == decoded.value
        IN  IF decoded.raised
            THEN Invalid(c.client, <<>>, <<"Invalid JSON format for tables parameter: ">> \o decoded.msg)
            ELSE IF ~is_list(tables_list)
            THEN Invalid(c.client, <<>>, <<"Tables must be an array of table objects">>)
            ELSE
            LET flags == [i \in 1..Len(tables_list.v) |->
                            LET table == tables_list.v[i]
                            IN  ~is_dict(table) \/ ~has_key(table, "name")
                                \/ ~has_key(table, "fields")]
                bad == first_flagged(flags, 1)
            IN  IF bad >= 0
                THEN Invalid(c.client, <<>>, <<"Table at index ", ToString(bad),
                                         " must have 'name' and 'fields' properties">>)
                ELSE
                LET response == AirtableClient_create_base(c.client, g.seed, strip(a.name),
                                                           tables_list, strip(a.workspace_id))
                    base_data == dict_get(response.value, "base", Obj(EmptyDict))
                    data == [base |-> base_data,
                             base_id |-> dict_get(base_data, "id", Str(<<>>)),
                             base_name |-> dict_get(base_data, "name", Str(<<>>)),
                             workspace_id |-> a.workspace_id,
                             tables_count |-> len(tables_list),
                             status |-> "configuration_validated",
                             message |-> ManualCreationNote,
                             creation_details |->
                                 [name |-> a.name,
                                  workspace_id |-> a.workspace_id,
                                  tables |-> tables_list,
                                  creation_successful |-> FALSE,
                                  api_limitation |-> "Airtable API does not support programmatic base creation",
                                  manual_required |-> TRUE]]
                IN  IF response.raised
                    THEN except_AirtableAPIError(c.client, calls_of(response), response.exc)
                    ELSE Validated(c.client, calls_of(response), data)

airtable_create_comment_text_first(a, g) ==
    IF is_blank(a.text) THEN Invalid(g.client, <<>>, <<"Comment text is required">>)
    ELSE IF is_blank(a.base_id) THEN Invalid(g.client, <<>>, <<"Base ID is required">>)
    ELSE IF is_blank(a.record_id) THEN Invalid(g.client, <<>>, <<"Record ID is required">>)
    ELSE IF is_blank(a.table_id_or_name)
    THEN Invalid(g.client, <<>>, <<"Table ID or name is required">>)
    ELSE
    LET c == get_airtable_client(g.client, g.env)
        comment_result == AirtableClient_create_comment(c.client, strip(a.base_id),
                              strip(a.record_id), strip(a.table_id_or_name), strip(a.text),
                              g.up, g.build)
        body == comment_result.value
    IN  IF c.raised THEN except_Exception(c.client, <<>>, c.exc)
        ELSE IF comment_result.raised
        THEN except_Exception(c.client, calls_of(comment_result), comment_result.exc)
        ELSE IF ~is_dict(body)
        THEN except_Exception(c.client, calls_of(comment_result), AttributeError(body))
        ELSE Success(c.client, calls_of(comment_result),
                     [comment |-> dict_get(body, "comment", Obj(EmptyDict)),
                      comment_id |-> dict_get(body, "comment_id", Str(<<>>)),
                      base_id |-> a.base_id,
                      record_id |-> a.record_id,
                      table_id_or_name |-> a.table_id_or_name,
                      text |-> a.text,
                      status |-> "comment_created",
                      message |-> <<"Comment created successfully">>])

airtable_create_comment_echo_trimmed(a, g) ==
    IF is_blank(a.base_id) THEN Invalid(g.client, <<>>, <<"Base ID is required">>)
    ELSE IF is_blank(a.record_id) THEN Invalid(g.client, <<>>, <<"Record ID is required">>)
    ELSE IF is_blank(a.table_id_or_name)
    THEN Invalid(g.client, <<>>, <<"Table ID or name is required">>)
    ELSE IF is_blank(a.text) THEN Invalid(g.client, <<>>, <<"Comment text is required">>)
    ELSE
    LET c == get_airtable_client(g.client, g.env)
        comment_result == AirtableClient_create_comment(c.client, strip(a.base_id),
                              strip(a.record_id), strip(a.table_id_or_name), strip(a.text),
                              g.up, g.build)
        body == comment_result.value
    IN  IF c.raised THEN except_Exception(c.client, <<>>, c.exc)
        ELSE IF comment_result.raised
        THEN except_Exception(c.client, calls_of(comment_result), comment_result.exc)
        ELSE IF ~is_dict(body)
        THEN except_Exception(c.client, calls_of(comment_result), AttributeError(body))
        ELSE Success(c.client, calls_of(comment_result),
                     [comment |-> dict_get(body, "comment", Obj(EmptyDict)),
                      comment_id |-> dict_get(body, "comment_id", Str(<<>>)),
                      base_id |-> strip(a.base_id),
                      record_id |-> strip(a.record_id),
                      table_id_or_name |-> strip(a.table_id_or_name),
                      text |-> strip(a.text),
                      status |-> "comment_created",
                      message |-> <<"Comment created successfully">>])

airtable_create_comment(a, g) ==
    IF is_blank(a.base_id) THEN Invalid(g.client, <<>>, <<"Base ID is required">>)
    ELSE IF is_blank(a.record_id) THEN Invalid(g.client, <<>>, <<"Record ID is required">>)
    ELSE IF is_blank(a.table_id_or_name)
    THEN Invalid(g.client, <<>>, <<"Table ID or name is required">>)
    ELSE IF is_blank(a.text) THEN Invalid(g.client, <<>>, <<"Comment text is required">>)
    ELSE
    LET c == get_airtable_client(g.client, g.env)
        comment_result == AirtableClient_create_comment(c.client, strip(a.base_id),
                              strip(a.record_id), strip(a.table_id_or_name), strip(a.text),
                              g.up, g.build)
        body == comment_result.value
    IN  IF c.raised THEN except_Exception(c.client, <<>>, c.exc)
        ELSE IF comment_result.raised
        THEN except_Exception(c.client, calls_of(comment_result), comment_result.exc)
        ELSE IF ~is_dict(body)
        THEN except_Exception(c.client, calls_of(comment_result), AttributeError(body))
        ELSE Success(c.client, calls_of(comment_result),
                     [comment |-> dict_get(body, "comment", Obj(EmptyDict)),
                      comment_id |-> dict_get(body, "comment_id", Str(<<>>)),
                      base_id |-> a.base_id,
                      record_id |-> a.record_id,
                      table_id_or_name |-> a.table_id_or_name,
                      text |-> a.text,
                      status |-> "comment_created",
                      message |-> <<"Comment created successfully">>])

\* "options or {}"
options_or_empty(options) == IF is_dict(options) THEN options ELSE Obj(EmptyDict)

airtable_create_field(a, g) ==
    IF is_blank(a.base_id) THEN Invalid(g.client, <<>>, <<"Base ID is required">>)
    ELSE IF is_blank(a.table_id) THEN Invalid(g.client, <<>>, <<"Table ID is required">>)
    ELSE IF is_blank(a.name) THEN Invalid(g.client, <<>>, <<"Field name is required">>)
    ELSE
    LET c == get_airtable_client(g.client, g.env)
        field_result == AirtableClient_create_field(c.client, strip(a.base_id),
                            strip(a.table_id), strip(a.name), strip(a.type),
                            strip(a.description), options_or_empty(a.options), g.up, g.build)
        body == field_result.value
    IN  IF c.raised THEN except_Exception(c.client, <<>>, c.exc)
        ELSE IF field_result.raised
        THEN except_Exception(c.client, calls_of(field_result), field_result.exc)
        ELSE IF ~is_dict(body)
        THEN except_Exception(c.client, calls_of(field_result), AttributeError(body))
        ELSE Success(c.client, calls_of(field_result),
                     [field |-> dict_get(body, "field", Obj(EmptyDict)),
                      field_id |-> dict_get(body, "field_id", Str(<<>>)),
                      base_id |-> a.base_id,
                      table_id |-> a.table_id,
                      name |-> a.name,
                      type |-> a.type,
                      description |-> a.description,
                      options |-> options_or_empty(a.options),
                      status |-> "field_created",
                      message |-> <<"Field created successfully">>])

airtable_create_multiple_records_limited(a, g) ==
    IF is_blank(a.base_id) THEN Invalid(g.client, <<>>, <<"Base ID is required">>)
    ELSE IF is_blank(a.table_id_or_name)
    THEN Invalid(g.client, <<>>, <<"Table ID or name is required">>)
    ELSE IF text_is_blank(a.records) THEN Invalid(g.client, <<>>, <<"Records data is required">>)
    ELSE
    LET decoded == json_loads(a.records)
        records_list == decoded.value
    IN  IF decoded.raised
        THEN Invalid(g.client, <<>>, <<"Invalid JSON format for records parameter: ">> \o decoded.msg)
        ELSE IF ~is_list(records_list)
        THEN Invalid(g.client, <<>>, <<"Records must be an array of record objects">>)
        ELSE IF len(records_list) = 0
        THEN Invalid(g.client, <<>>, <<"At least one record is required">>)
        ELSE IF len(records_list) > 10
        THEN Invalid(g.client, <<>>, <<"Maximum 10 records can be created at once">>)
        ELSE
        LET flags == [i \in 1..Len(records_list.v) |->
                        LET record == records_list.v[i]
                        IN  ~is_dict(record) \/ ~has_key(record, "fields")]
            bad == first_flagged(flags, 1)
            c == get_airtable_client(g.client, g.env)
            records_result == AirtableClient_create_multiple_records(c.client,
                                  strip(a.base_id), strip(a.table_id_or_name), records_list,
                                  g.up, g.build)
            body == records_result.value
            records == dict_get(body, "records", Arr(<<>>))
        IN  IF bad >= 0
            THEN Invalid(g.client, <<>>, <<"Record at index ", ToString(bad),
                                     " must have 'fields' property">>)
            ELSE IF c.raised THEN except_Exception(c.client, <<>>, c.exc)
            ELSE IF records_result.raised
            THEN except_Exception(c.client, calls_of(records_result), records_result.exc)
            ELSE IF ~is_dict(body)
            THEN except_Exception(c.client, calls_of(records_result), AttributeError(body))
            ELSE IF ~has_len(records)
            THEN except_Exception(c.client, calls_of(records_result), TypeError(records))
            ELSE Success(c.client, calls_of(records_result),
                         [records |-> records,
                          created_records |-> len(records),
                          base_id |-> a.base_id,
                          table_id_or_name |-> a.table_id_or_name,
                          status |-> "records_created",
                          message |-> <<"Successfully created ", ToString(len(records)),
                                        " records">>])

airtable_create_multiple_records(a, g) ==
    IF is_blank(a.base_id) THEN Invalid(g.client, <<>>, <<"Base ID is required">>)
    ELSE IF is_blank(a.table_id_or_name)
    THEN Invalid(g.client, <<>>, <<"Table ID or name is required">>)
    ELSE IF text_is_blank(a.records) THEN Invalid(g.client, <<>>, <<"Records data is required">>)
    ELSE
    LET decoded == json_loads(a.records)
        records_list == decoded.value
    IN  IF decoded.raised
        THEN Invalid(g.client, <<>>, <<"Invalid JSON format for records parameter: ">> \o decoded.msg)
        ELSE IF ~is_list(records_list)
        THEN Invalid(g.client, <<>>, <<"Records must be an array of record objects">>)
        ELSE
        LET flags == [i \in 1..Len(records_list.v) |->
                        LET record == records_list.v[i]
                        IN  ~is_dict(record) \/ ~has_key(record, "fields")]
            bad == first_flagged(flags, 1)
            c == get_airtable_client(g.client, g.env)
            records_result == AirtableClient_create_multiple_records(c.client,
                                  strip(a.base_id), strip(a.table_id_or_name), records_list,
                                  g.up, g.build)
            body == records_result.value
            records == dict_get(body, "records", Arr(<<>>))
        IN  IF bad >= 0
            THEN Invalid(g.client, <<>>, <<"Record at index ", ToString(bad),
                                     " must have 'fields' property">>)
            ELSE IF c.raised THEN except_Exception(c.client, <<>>, c.exc)
            ELSE IF records_result.raised
            THEN except_Exception(c.client, calls_of(records_result), records_result.exc)
            ELSE IF ~is_dict(body)
            THEN except_Exception(c.client, calls_of(records_result), AttributeError(body))
            ELSE IF ~has_len(records)
            THEN except_Exception(c.client, calls_of(records_result), TypeError(records))
            ELSE Success(c.client, calls_of(records_result),
                         [records |-> records,
                          created_records |-> len(records),
                          base_id |-> a.base_id,
                          table_id_or_name |-> a.table_id_or_name,
                          status |-> "records_created",
                          message |-> <<"Successfully created ", ToString(len(records)),
                                        " records">>])

airtable_create_record(a, g) ==
    IF is_blank(a.base_id) THEN Invalid(g.client, <<>>, <<"Base ID is required">>)
    ELSE IF is_blank(a.table_id_or_name)
    THEN Invalid(g.client, <<>>, <<"Table ID or name is required">>)
    ELSE IF text_is_blank(a.fields) THEN Invalid(g.client, <<>>, <<"Fields data is required">>)
    ELSE
    LET decoded == json_loads(a.fields)
        fields_dict == decoded.value
        c == get_airtable_client(g.client, g.env)
        record_result == AirtableClient_create_record(c.client, strip(a.base_id),
                             strip(a.table_id_or_name), fields_dict, g.up, g.build)
        body == record_result.value
        record == dict_get(body, "record", Obj(EmptyDict))
    IN  IF decoded.raised
        THEN Invalid(g.client, <<>>, <<"Invalid JSON format for fields parameter: ">> \o decoded.msg)
        ELSE IF ~is_dict(fields_dict) THEN Invalid(g.client, <<>>, <<"Fields must be a JSON object">>)
        ELSE IF c.raised THEN except_Exception(c.client, <<>>, c.exc)
        ELSE IF record_result.raised
        THEN except_Exception(c.client, calls_of(record_result), record_result.exc)
        ELSE IF ~is_dict(body)
        THEN except_Exception(c.client, calls_of(record_result), AttributeError(body))
        ELSE IF ~is_dict(record)
        THEN except_Exception(c.client, calls_of(record_result), AttributeError(record))
        ELSE Success(c.client, calls_of(record_result),
                     [record |-> record,
                      record_id |-> dict_get(record, "id", Str(<<>>)),
                      base_id |-> a.base_id,
                      table_id_or_name |-> a.table_id_or_name,
                      fields |-> fields_dict,
                      status |-> "record_created",
                      message |-> <<"Record created successfully">>])

airtable_create_table(a, g) ==
    IF is_blank(a.base_id) THEN Invalid(g.client, <<>>, <<"Base ID is required">>)
    ELSE IF is_blank(a.name) THEN Invalid(g.client, <<>>, <<"Table name is required">>)
    ELSE IF text_is_blank(a.fields) THEN Invalid(g.client, <<>>, <<"Fields data is required">>)
    ELSE
    LET decoded == json_loads(a.fields)
        fields_list == decoded.value
    IN  IF decoded.raised
        THEN Invalid(g.client, <<>>, <<"Invalid JSON format for fields parameter: ">> \o decoded.msg)
        ELSE IF ~is_list(fields_list)
        THEN Invalid(g.client, <<>>, <<"Fields must be an array of field objects">>)
        ELSE
        LET flags == [i \in 1..Len(fields_list.v) |->
                        LET field == fields_list.v[i]
                        IN  ~is_dict(field) \/ ~has_key(field, "name")
                            \/ ~has_key(field, "type")]
            bad == first_flagged(flags, 1)
            c == get_airtable_client(g.client, g.env)
            table_result == AirtableClient_create_table(c.client, strip(a.base_id),
                                strip(a.name), fields_list, strip(a.description),
                                g.up, g.build)
            body == table_result.value
            table == dict_get(body, "table", Obj(EmptyDict))
        IN  IF bad >= 0
            THEN Invalid(g.client, <<>>, <<"Field at index ", ToString(bad),
                                     " must have 'name' and 'type' properties">>)
            ELSE IF c.raised THEN except_Exception(c.client, <<>>, c.exc)
            ELSE IF table_result.raised
            THEN except_Exception(c.client, calls_of(table_result), table_result.exc)
            ELSE IF ~is_dict(body)
            THEN except_Exception(c.client, calls_of(table_result), AttributeError(body))
            ELSE IF ~is_dict(table)
            THEN except_Exception(c.client, calls_of(table_result), AttributeError(table))
            ELSE Success(c.client, calls_of(table_result),
                         [table |-> table,
                          table_id |-> dict_get(table, "id", Str(<<>>)),
                          base_id |-> a.base_id,
                          name |-> a.name,
                          description |-> a.description,
                          fields_count |-> len(fields_list),
                          status |-> "table_created",
                          message |-> <<"Table created successfully">>])

\* get_base_schema with the request sent before base_id is looked at
airtable_get_base_schema_call_first(a, g) ==
    LET c == get_airtable_client(g.client, g.env)
        schema_result == AirtableClient_get_base_schema(c.client, strip(a.base_id),
                             g.up, g.build)
        body == schema_result.value
        tables == dict_get(body, "tables", Arr(<<>>))
    IN  IF c.raised THEN except_Exception(c.client, <<>>, c.exc)
        ELSE IF is_blank(a.base_id)
        THEN Invalid(c.client, calls_of(schema_result), <<"Base ID is required">>)
        ELSE IF schema_result.raised
        THEN except_Exception(c.client, calls_of(schema_result), schema_result.exc)
        ELSE IF ~is_dict(body)
        THEN except_Exception(c.client, calls_of(schema_result), AttributeError(body))
        ELSE IF ~has_len(tables)
        THEN except_Exception(c.client, calls_of(schema_result), TypeError(tables))
        ELSE Success(c.client, calls_of(schema_result),
                     [schema |-> body,
                      base_id |-> a.base_id,
                      tables |-> tables,
                      tables_count |-> len(tables),
                      status |-> "schema_retrieved",
                      message |-> <<"Base schema retrieved successfully">>])

airtable_get_base_schema(a, g) ==
    IF is_blank(a.base_id) THEN Invalid(g.client, <<>>, <<"Base ID is required">>)
    ELSE
    LET c == get_airtable_client(g.client, g.env)
        schema_result == AirtableClient_get_base_schema(c.client, strip(a.base_id),
                             g.up, g.build)
        body == schema_result.value
        tables == dict_get(body, "tables", Arr(<<>>))
    IN  IF c.raised THEN except_Exception(c.client, <<>>, c.exc)
        ELSE IF schema_result.raised
        THEN except_Exception(c.client, calls_of(schema_result), schema_result.exc)
        ELSE IF ~is_dict(body)
        THEN except_Exception(c.client, calls_of(schema_result), AttributeError(body))
        ELSE IF ~has_len(tables)
        THEN except_Exception(c.client, calls_of(schema_result), TypeError(tables))
        ELSE Success(c.client, calls_of(schema_result),
                     [schema |-> body,
                      base_id |-> a.base_id,
                      tables |-> tables,
                      tables_count |-> len(tables),
                      status |-> "schema_retrieved",
                      message |-> <<"Base schema retrieved successfully">>])

airtable_get_record(a, g) ==
    IF is_blank(a.base_id) THEN Invalid(g.client, <<>>, <<"Base ID is required">>)
    ELSE IF is_blank(a.table_id_or_name)
    THEN Invalid(g.client, <<>>, <<"Table ID or name is required">>)
    ELSE IF is_blank(a.record_id) THEN Invalid(g.client, <<>>, <<"Record ID is required">>)
    ELSE
    LET c == get_airtable_client(g.client, g.env)
        record_result == AirtableClient_get_record(c.client, strip(a.base_id),
                             strip(a.table_id_or_name), strip(a.record_id),
                             strip(a.cell_format), a.return_fields_by_field_id,
                             g.up, g.build)
        body == record_result.value
    IN  IF c.raised THEN except_Exception(c.client, <<>>, c.exc)
        ELSE IF record_result.raised
        THEN except_Exception(c.client, calls_of(record_result), record_result.exc)
        ELSE IF ~is_dict(body)
        THEN except_Exception(c.client, calls_of(record_result), AttributeError(body))
        ELSE Success(c.client, calls_of(record_result),
                     [record |-> dict_get(body, "record", Obj(EmptyDict)),
                      base_id |-> a.base_id,
                      table_id_or_name |-> a.table_id_or_name,
                      record_id |-> a.record_id,
                      cell_format |-> a.cell_format,
                      return_fields_by_field_id |-> a.return_fields_by_field_id,
                      status |-> "record_retrieved",
                      message |-> <<"Record retrieved successfully">>])

airtable_get_user_info(a, g) ==
    LET c == get_airtable_client(g.client, g.env)
        user_info == AirtableClient_get_user_info(c.client, g.up, g.build)
        body == user_info.value
    IN  IF c.raised THEN except_Exception(c.client, <<>>, c.exc)
        ELSE IF user_info.raised
        THEN except_Exception(c.client, calls_of(user_info), user_info.exc)
        ELSE IF ~is_dict(body)
        THEN except_Exception(c.client, calls_of(user_info), AttributeError(body))
        ELSE Success(c.client, calls_of(user_info),
                     [user |-> body,
                      user_id |-> dict_get(body, "id", Str(<<>>)),
                      scopes |-> dict_get(body, "scopes", Arr(<<>>)),
                      status |-> "user_info_retrieved",
                      message |-> <<"User information retrieved successfully">>])

airtable_list_bases(a, g) ==
    LET c == get_airtable_client(g.client, g.env)
        bases_result == AirtableClient_list_bases(c.client, g.up, g.build)
        body == bases_result.value
        bases == dict_get(body, "bases", Arr(<<>>))
    IN  IF c.raised THEN except_Exception(c.client, <<>>, c.exc)
        ELSE IF bases_result.raised
        THEN except_Exception(c.client, calls_of(bases_result), bases_result.exc)
        ELSE IF ~is_dict(body)
        THEN except_Exception(c.client, calls_of(bases_result), AttributeError(body))
        ELSE IF ~has_len(bases)
        THEN except_Exception(c.client, calls_of(bases_result), TypeError(bases))
        ELSE Success(c.client, calls_of(bases_result),
                     [bases |-> bases,
                      bases_count |-> len(bases),
                      offset |-> dict_get(body, "offset", Str(<<>>)),
                      status |-> "bases_retrieved",
                      message |-> <<"Bases retrieved successfully">>])

airtable_list_comments(a, g) ==
    IF is_blank(a.base_id) THEN Invalid(g.client, <<>>, <<"Base ID is required">>)
    ELSE IF is_blank(a.table_id_or_name)
    THEN Invalid(g.client, <<>>, <<"Table ID or name is required">>)
    ELSE IF is_blank(a.record_id) THEN Invalid(g.client, <<>>, <<"Record ID is required">>)
    ELSE
    LET c == get_airtable_client(g.client, g.env)
        comments_result == AirtableClient_list_comments(c.client, strip(a.base_id),
                               strip(a.table_id_or_name), strip(a.record_id), g.up, g.build)
        body == comments_result.value
        comments == dict_get(body, "comments", Arr(<<>>))
    IN  IF c.raised THEN except_Exception(c.client, <<>>, c.exc)
        ELSE IF comments_result.raised
        THEN except_Exception(c.client, calls_of(comments_result), comments_result.exc)
        ELSE IF ~is_dict(body)
        THEN except_Exception(c.client, calls_of(comments_result), AttributeError(body))
        ELSE IF ~has_len(comments)
        THEN except_Exception(c.client, calls_of(comments_result), TypeError(comments))
        ELSE Success(c.client, calls_of(comments_result),
                     [comments |-> comments,
                      comments_count |-> len(comments),
                      base_id |-> a.base_id,
                      table_id_or_name |-> a.table_id_or_name,
                      record_id |-> a.record_id,
                      status |-> "comments_retrieved",
                      message |-> <<"Comments retrieved successfully">>])

airtable_delete_record_client_first(a, g) ==
    LET c == get_airtable_client(g.client, g.env)
    IN
    IF c.raised THEN except_Exception(c.client, <<>>, c.exc)
    ELSE IF is_blank(a.base_id) THEN Invalid(c.client, <<>>, <<"Base ID is required">>)
    ELSE IF is_blank(a.table_id_or_name)
    THEN Invalid(c.client, <<>>, <<"Table ID or name is required">>)
    ELSE IF is_blank(a.record_id) THEN Invalid(c.client, <<>>, <<"Record ID is required">>)
    ELSE
    LET delete_result == AirtableClient_delete_record(c.client, strip(a.base_id),
                             strip(a.table_id_or_name), strip(a.record_id), g.up, g.build)
        body == delete_result.value
    IN  IF c.raised THEN except_Exception(c.client, <<>>, c.exc)
        ELSE IF delete_result.raised
        THEN except_Exception(c.client, calls_of(delete_result), delete_result.exc)
        ELSE IF ~is_dict(body)
        THEN except_Exception(c.client, calls_of(delete_result), AttributeError(body))
        ELSE Success(c.client, calls_of(delete_result),
                     [deleted_record |-> dict_get(body, "record", Obj(EmptyDict)),
                      record_id |-> a.record_id,
                      base_id |-> a.base_id,
                      table_id_or_name |-> a.table_id_or_name,
                      status |-> "record_deleted",
                      message |-> <<"Record deleted successfully">>])

airtable_delete_record(a, g) ==
    IF is_blank(a.base_id) THEN Invalid(g.client, <<>>, <<"Base ID is required">>)
    ELSE IF is_blank(a.table_id_or_name)
    THEN Invalid(g.client, <<>>, <<"Table ID or name is required">>)
    ELSE IF is_blank(a.record_id) THEN Invalid(g.client, <<>>, <<"Record ID is required">>)
    ELSE
    LET c == get_airtable_client(g.client, g.env)
        delete_result == AirtableClient_delete_record(c.client, strip(a.base_id),
                             strip(a.table_id_or_name), strip(a.record_id), g.up, g.build)
        body == delete_result.value
    IN  IF c.raised THEN except_Exception(c.client, <<>>, c.exc)
        ELSE IF delete_result.raised
        THEN except_Exception(c.client, calls_of(delete_result), delete_result.exc)
        ELSE IF ~is_dict(body)
        THEN except_Exception(c.client, calls_of(delete_result), AttributeError(body))
        ELSE Success(c.client, calls_of(delete_result),
                     [deleted_record |-> dict_get(body, "record", Obj(EmptyDict)),
                      record_id |-> a.record_id,
                      base_id |-> a.base_id,
                      table_id_or_name |-> a.table_id_or_name,
                      status |-> "record_deleted",
                      message |-> <<"Record deleted successfully">>])

\* a limit one too high
MaxDeleteRecords_eleven == 10 + 1

\* the most record IDs one bulk delete accepts
MaxDeleteRecords == 10

airtable_delete_multiple_records(a, g) ==
    IF is_blank(a.base_id) THEN Invalid(g.client, <<>>, <<"Base ID is required">>)
    ELSE IF is_blank(a.table_id_or_name)
    THEN Invalid(g.client, <<>>, <<"Table ID or name is required">>)
    ELSE IF text_is_blank(a.record_ids) THEN Invalid(g.client, <<>>, <<"Record IDs are required">>)
    ELSE
    LET decoded == json_loads(a.record_ids)
        record_ids_list == decoded.value
    IN  IF decoded.raised
        THEN Invalid(g.client, <<>>,
                     <<"Invalid JSON format for record_ids parameter: ">> \o decoded.msg)
        ELSE IF ~is_list(record_ids_list)
        THEN Invalid(g.client, <<>>, <<"Record IDs must be an array of record ID strings">>)
        ELSE IF len(record_ids_list) = 0
        THEN Invalid(g.client, <<>>, <<"At least one record ID is required">>)
        ELSE IF len(record_ids_list) > MaxDeleteRecords
        THEN Invalid(g.client, <<>>, <<"Maximum 10 records can be deleted at once">>)
        ELSE
        LET flags == [i \in 1..Len(record_ids_list.v) |->
                        LET record_id == record_ids_list.v[i]
                        IN  ~is_str(record_id) \/ strip(record_id.v) = <<>>]
            bad == first_flagged(flags, 1)
            c == get_airtable_client(g.client, g.env)
            delete_result == AirtableClient_delete_multiple_records(c.client,
                                 strip(a.base_id), strip(a.table_id_or_name),
                                 record_ids_list, g.up, g.build)
            body == delete_result.value
            records == dict_get(body, "records", Arr(<<>>))
        IN  IF bad >= 0
            THEN Invalid(g.client, <<>>, <<"Record ID at index ", ToString(bad),
                                     " must be a non-empty string">>)
            ELSE IF c.raised THEN except_Exception(c.client, <<>>, c.exc)
            ELSE IF delete_result.raised
            THEN except_Exception(c.client, calls_of(delete_result), delete_result.exc)
            ELSE IF ~is_dict(body)
            THEN except_Exception(c.client, calls_of(delete_result), AttributeError(body))
            ELSE IF ~has_len(records)
            THEN except_Exception(c.client, calls_of(delete_result), TypeError(records))
            ELSE Success(c.client, calls_of(delete_result),
                         [deleted_records |-> records,
                          deleted_count |-> len(records),
                          requested_count |-> len(record_ids_list),
                          base_id |-> a.base_id,
                          table_id_or_name |-> a.table_id_or_name,
                          record_ids |-> record_ids_list,
                          status |-> "records_deleted",
                          message |-> <<"Successfully deleted ", ToString(len(records)),
                                        " records">>])

airtable_delete_comment(a, g) ==
    IF is_blank(a.base_id) THEN Invalid(g.client, <<>>, <<"Base ID is required">>)
    ELSE IF is_blank(a.table_id_or_name)
    THEN Invalid(g.client, <<>>, <<"Table ID or name is required">>)
    ELSE IF is_blank(a.record_id) THEN Invalid(g.client, <<>>, <<"Record ID is required">>)
    ELSE IF is_blank(a.row_comment_id)
    THEN Invalid(g.client, <<>>, <<"Row comment ID is required">>)
    ELSE
    LET c == get_airtable_client(g.client, g.env)
        delete_result == AirtableClient_delete_comment(c.client, strip(a.base_id),
                             strip(a.table_id_or_name), strip(a.record_id),
                             strip(a.row_comment_id), g.up, g.build)
    IN  IF c.raised THEN except_Exception(c.client, <<>>, c.exc)
        ELSE IF delete_result.raised
        THEN except_Exception(c.client, calls_of(delete_result), delete_result.exc)
        ELSE Success(c.client, calls_of(delete_result),
                     [comment_deleted |-> delete_result.value,
                      base_id |-> a.base_id,
                      table_id_or_name |-> a.table_id_or_name,
                      record_id |-> a.record_id,
                      row_comment_id |-> a.row_comment_id,
                      status |-> "comment_deleted",
                      message |-> <<"Comment deleted successfully">>])

airtable_update_record(a, g) ==
    IF is_blank(a.base_id) THEN Invalid(g.client, <<>>, <<"Base ID is required">>)
    ELSE IF is_blank(a.table_id_or_name)
    THEN Invalid(g.client, <<>>, <<"Table ID or name is required">>)
    ELSE IF is_blank(a.record_id) THEN Invalid(g.client, <<>>, <<"Record ID is required">>)
    ELSE IF text_is_blank(a.fields) THEN Invalid(g.client, <<>>, <<"Fields data is required">>)
    ELSE
    LET decoded == json_loads(a.fields)
        fields_dict == decoded.value
        c == get_airtable_client(g.client, g.env)
        record_result == AirtableClient_update_record(c.client, strip(a.base_id),
                             strip(a.table_id_or_name), strip(a.record_id), fields_dict,
                             a.return_fields_by_field_id, g.up, g.build)
        body == record_result.value
    IN  IF decoded.raised
        THEN Invalid(g.client, <<>>, <<"Invalid JSON format for fields parameter: ">> \o decoded.msg)
        ELSE IF ~is_dict(fields_dict) THEN Invalid(g.client, <<>>, <<"Fields must be a JSON object">>)
        ELSE IF c.raised THEN except_Exception(c.client, <<>>, c.exc)
        ELSE IF record_result.raised
        THEN except_Exception(c.client, calls_of(record_result), record_result.exc)
        ELSE IF ~is_dict(body)
        THEN except_Exception(c.client, calls_of(record_result), AttributeError(body))
        ELSE Success(c.client, calls_of(record_result),
                     [record |-> dict_get(body, "record", Obj(EmptyDict)),
                      record_id |-> a.record_id,
                      base_id |-> a.base_id,
                      table_id_or_name |-> a.table_id_or_name,
                      fields |-> fields_dict,
                      return_fields_by_field_id |-> a.return_fields_by_field_id,
                      status |-> "record_updated",
                      message |-> <<"Record updated successfully">>])

\* the per-entry checks of a bulk update without the one for 'id'
update_record_error_no_id(record) ==
    IF ~is_dict(record) THEN " must be an object"
    ELSE IF ~has_key(record, "fields") THEN " must have a 'fields' object"
    ELSE ""

\* the three checks made on one entry of update_multiple_records, in order
update_record_error(record) ==
    IF ~is_dict(record) THEN " must be an object"
    ELSE IF ~has_key(record, "id") THEN " must have an 'id' field"
    ELSE IF ~has_key(record, "fields") THEN " must have a 'fields' object"
    ELSE ""

airtable_update_multiple_records(a, g) ==
    IF is_blank(a.base_id) THEN Invalid(g.client, <<>>, <<"Base ID is required">>)
    ELSE IF is_blank(a.table_id_or_name)
    THEN Invalid(g.client, <<>>, <<"Table ID or name is required">>)
    ELSE IF text_is_blank(a.records) THEN Invalid(g.client, <<>>, <<"Records data is required">>)
    ELSE
    LET decoded == json_loads(a.records)
        records_list == decoded.value
    IN  IF decoded.raised
        THEN Invalid(g.client, <<>>, <<"Invalid JSON format for records parameter: ">> \o decoded.msg)
        ELSE IF ~is_list(records_list)
        THEN Invalid(g.client, <<>>, <<"Records must be an array of record objects">>)
        ELSE
        LET flags == [i \in 1..Len(records_list.v) |->
                        update_record_error(records_list.v[i]) # ""]
            bad == first_flagged(flags, 1)
            c == get_airtable_client(g.client, g.env)
            records_result == AirtableClient_update_multiple_records(c.client,
                                  strip(a.base_id), strip(a.table_id_or_name), records_list,
                                  g.up, g.build)
            body == records_result.value
            records == dict_get(body, "records", Arr(<<>>))
        IN  IF bad >= 0
            THEN Invalid(g.client, <<>>, <<"Record at index ", ToString(bad),
                                     update_record_error(records_list.v[bad + 1])>>)
            ELSE IF c.raised THEN except_Exception(c.client, <<>>, c.exc)
            ELSE IF records_result.raised
            THEN except_Exception(c.client, calls_of(records_result), records_result.exc)
            ELSE IF ~is_dict(body)
            THEN except_Exception(c.client, calls_of(records_result), AttributeError(body))
            ELSE IF ~has_len(records)
            THEN except_Exception(c.client, calls_of(records_result), TypeError(records))
            ELSE Success(c.client, calls_of(records_result),
                         [records |-> records,
                          updated_records |-> len(records),
                          base_id |-> a.base_id,
                          table_id_or_name |-> a.table_id_or_name,
                          status |-> "records_updated",
                          message |-> <<"Successfully updated ", ToString(len(records)),
                                        " records">>])

\* one optional JSON-array parameter of list_records: skipped when blank
optional_list(x) ==
    IF text_is_blank(x) THEN [raised |-> FALSE, value |-> Arr(<<>>), msg |-> <<>>]
    ELSE json_loads(x)

airtable_list_records(a, g) ==
    IF is_blank(a.base_id) THEN Invalid(g.client, <<>>, <<"Base ID is required">>)
    ELSE IF is_blank(a.table_id_or_name)
    THEN Invalid(g.client, <<>>, <<"Table ID or name is required">>)
    ELSE
    LET c == get_airtable_client(g.client, g.env)
        fields_list == optional_list(a.fields)
        sort_list == optional_list(a.sort)
        record_metadata_list == optional_list(a.record_metadata)
        records_result == AirtableClient_list_records(c.client, strip(a.base_id),
                              strip(a.table_id_or_name),
                              [cell_format |-> strip(a.cell_format),
                               fields |-> fields_list.value,
                               filter_by_formula |-> strip(a.filter_by_formula),
                               max_records |-> a.max_records,
                               offset |-> strip(a.offset),
                               page_size |-> a.page_size,
                               record_metadata |-> record_metadata_list.value,
                               return_fields_by_field_id |-> a.return_fields_by_field_id,
                               sort |-> sort_list.value,
                               time_zone |-> strip(a.time_zone),
                               user_locale |-> strip(a.user_locale),
                               view |-> strip(a.view)],
                              g.up, g.build)
        body == records_result.value
        records == dict_get(body, "records", Arr(<<>>))
    IN  IF c.raised THEN except_Exception(c.client, <<>>, c.exc)
        ELSE IF fields_list.raised
        THEN Invalid(c.client, <<>>, <<"Invalid JSON format for fields parameter: ">>
                               \o fields_list.msg)
        ELSE IF ~is_list(fields_list.value)
        THEN Invalid(c.client, <<>>, <<"Fields must be a JSON array">>)
        ELSE IF sort_list.raised
        THEN Invalid(c.client, <<>>, <<"Invalid JSON format for sort parameter: ">> \o sort_list.msg)
        ELSE IF ~is_list(sort_list.value)
        THEN Invalid(c.client, <<>>, <<"Sort must be a JSON array">>)
        ELSE IF record_metadata_list.raised
        THEN Invalid(c.client, <<>>, <<"Invalid JSON format for record_metadata parameter: ">>
                               \o record_metadata_list.msg)
        ELSE IF ~is_list(record_metadata_list.value)
        THEN Invalid(c.client, <<>>, <<"Record metadata must be a JSON array">>)
        ELSE IF records_result.raised
        THEN except_Exception(c.client, calls_of(records_result), records_result.exc)
        ELSE IF ~is_dict(body)
        THEN except_Exception(c.client, calls_of(records_result), AttributeError(body))
        ELSE IF ~has_len(records)
        THEN except_Exception(c.client, calls_of(records_result), TypeError(records))
        ELSE Success(c.client, calls_of(records_result),
                     [records |-> records,
                      records_count |-> len(records),
                      offset |-> dict_get(body, "offset", Str(<<>>)),
                      base_id |-> a.base_id,
                      table_id_or_name |-> a.table_id_or_name,
                      page_size |-> a.page_size,
                      status |-> "records_retrieved",
                      message |-> <<"Records retrieved successfully">>])

----------------------------------------------------------------------------
(* What callers pass and what the upstream answers *)

\* a required string: empty, whitespace only, clean, padded
ReqStrings == {<<>>, <<" ">>, <<"a">>, <<" ", "a", " ">>}

Seqs(S, n) == UNION {[1..k -> S] : k \in 0..n}

\* JSON arrays over one well-formed entry and some others: every
\* combination up to MaxShort entries, and up to MaxEntries entries all
\* well-formed or with a single other entry at any position
Arrays(good, others) ==
    Seqs({good} \cup others, MaxShort)
    \cup {[i \in 1..n |-> good] : n \in 0..MaxEntries}
    \cup UNION {{[i \in 1..n |-> IF i = d THEN b ELSE good] : d \in 1..n, b \in others}
                : n \in 1..MaxEntries}

\* texts that are not a JSON array
NotAnArray ==
    {EmptyText, SpacesText, Malformed(ExpectingName), Text(Obj(EmptyDict)), Text(Num(1))}

\* texts that are not a JSON object
NotAnObject ==
    {EmptyText, SpacesText, Malformed(ExpectingName), Text(Arr(<<>>)), Text(Str(<<"x">>))}

ArrayTexts(good, others) == NotAnArray \cup {Text(Arr(x)) : x \in Arrays(good, others)}

ObjectTexts == NotAnObject \cup {Text(Obj(EmptyDict)), Text(Obj([Name |-> Str(<<"x">>)]))}

FieldsValue == Obj([Name |-> Str(<<"x">>)])

TableEntries ==
    {Obj([name |-> Str(<<"T">>)]), Obj([fields |-> Arr(<<>>)]), Str(<<"T">>)}

FieldEntries ==
    {Obj([name |-> Str(<<"F">>)]), Obj([type |-> Str(<<"number">>)]), Num(1)}

NewRecordEntries == {Obj([id |-> Str(<<"rec1">>)]), Str(<<"rec1">>)}

UpdateEntries == {Obj([fields |-> FieldsValue]), Obj([id |-> Str(<<"rec1">>)]), Num(1)}

RecordIdEntries == {Str(<<" ">>), Num(7), Str(<<" ", "rec1">>)}

TablesTexts ==
    ArrayTexts(Obj([name |-> Str(<<"T">>), fields |-> Arr(<<>>)]), TableEntries)

FieldsTexts ==
    ArrayTexts(Obj([name |-> Str(<<"F">>), type |-> Str(<<"number">>)]), FieldEntries)

NewRecordsTexts == ArrayTexts(Obj([fields |-> FieldsValue]), NewRecordEntries)

UpdateRecordsTexts ==
    ArrayTexts(Obj([id |-> Str(<<"rec1">>), fields |-> FieldsValue]), UpdateEntries)

RecordIdsTexts == ArrayTexts(Str(<<"rec1">>), RecordIdEntries)

\* with a blank required string the JSON text is not looked at: a few suffice
FewTexts == {EmptyText, Malformed(ExpectingName), Text(Arr(<<>>))}

EnvValues ==
    {[set |-> FALSE, value |-> <<>>], [set |-> TRUE, value |-> <<>>],
     [set |-> TRUE, value |-> <<"patKEY">>]}

HashSeeds == {0, 1}

StoredRecord == Obj([id |-> Str(<<"rec1">>), fields |-> FieldsValue])

\* a success body carrying every member some tool reads, its lists k long
RichBody(k) ==
    LET items == Arr([i \in 1..k |-> StoredRecord])
    IN  Obj([records |-> items, bases |-> items, comments |-> items, tables |-> items,
             scopes |-> items,
             record |-> StoredRecord, table |-> StoredRecord, comment |-> StoredRecord,
             field |-> StoredRecord,
             id |-> Str(<<"usr1">>), comment_id |-> Str(<<"com1">>),
             field_id |-> Str(<<"fld1">>), offset |-> Str(<<"itr1">>)])

\* a success body whose members have the wrong type
OddBody ==
    Obj([records |-> Num(1), bases |-> Null, comments |-> Num(1), tables |-> Null,
         record |-> Str(<<"rec1">>), table |-> Null])

OkBodies ==
    {Text(RichBody(k)) : k \in 0..MaxBodyList}
    \cup {Text(OddBody), Text(Obj(EmptyDict)), Text(Arr(<<>>)), Malformed(ExpectingValue)}

ErrorTypes ==
    {"AUTHENTICATION_REQUIRED", "INVALID_API_KEY", "INSUFFICIENT_PERMISSIONS",
     "WORKSPACE_NOT_FOUND", "timeout_error", "NOT_FOUND"}

ErrorBodies ==
    {Text(Obj([error |-> Obj([type |-> Str(<<ty>>), message |-> Str(<<"bad key">>)])]))
        : ty \in ErrorTypes}
    \cup {Text(Obj([error |-> Obj(EmptyDict)])),
          Text(Obj([error |-> Str(<<"NOT_FOUND">>)])),
          Text(Obj(EmptyDict)), Text(Arr(<<>>)), Malformed(ExpectingValue)}

Upstream ==
    {Response(200, "OK", b) : b \in OkBodies}
    \cup {Response(401, "Unauthorized", b) : b \in ErrorBodies}
    \cup {Response(500, "Internal Server Error", b) : b \in ErrorBodies}
    \cup {NoResponse("ConnectionError"), NoResponse("ReadTimeout")}

CreateBaseArgs ==
    {a \in [name : ReqStrings, workspace_id : ReqStrings, tables : TablesTexts] :
        (is_blank(a.name) \/ is_blank(a.workspace_id)) => a.tables \in FewTexts}

CreateCommentArgs ==
    [base_id : ReqStrings, record_id : ReqStrings, table_id_or_name : ReqStrings,
     text : ReqStrings]

CreateFieldArgs ==
    [base_id : ReqStrings, table_id : ReqStrings, name : ReqStrings,
     type : {<<"singleLineText">>, <<" ", "singleSelect">>},
     description : {<<>>, <<" ">>, <<" ", "d">>},
     options : {Null, Obj(EmptyDict), Obj([choices |-> Arr(<<>>)])}]

CreateMultipleRecordsArgs ==
    {a \in [base_id : ReqStrings, table_id_or_name : ReqStrings, records : NewRecordsTexts] :
        (is_blank(a.base_id) \/ is_blank(a.table_id_or_name)) => a.records \in FewTexts}

CreateRecordArgs ==
    [base_id : ReqStrings, table_id_or_name : ReqStrings, fields : ObjectTexts]

CreateTableArgs ==
    {a \in [base_id : ReqStrings, name : ReqStrings, fields : FieldsTexts,
            description : {<<>>, <<" ", "d">>}] :
        (is_blank(a.base_id) \/ is_blank(a.name)) => a.fields \in FewTexts}

GetBaseSchemaArgs == [base_id : ReqStrings]

GetRecordArgs ==
    [base_id : ReqStrings, table_id_or_name : ReqStrings, record_id : ReqStrings,
     cell_format : {<<"json">>, <<"string", " ">>}, return_fields_by_field_id : BOOLEAN]

NoArgs == EmptyDict

RecordArgs == [base_id : ReqStrings, table_id_or_name : ReqStrings, record_id : ReqStrings]

DeleteMultipleRecordsArgs ==
    {a \in [base_id : ReqStrings, table_id_or_name : ReqStrings,
            record_ids : RecordIdsTexts] :
        (is_blank(a.base_id) \/ is_blank(a.table_id_or_name)) => a.record_ids \in FewTexts}

DeleteCommentArgs ==
    [base_id : ReqStrings, table_id_or_name : ReqStrings, record_id : ReqStrings,
     row_comment_id : ReqStrings]

UpdateRecordArgs ==
    {a \in [base_id : ReqStrings, table_id_or_name : ReqStrings, record_id : ReqStrings,
            fields : ObjectTexts, return_fields_by_field_id : BOOLEAN] :
        a.return_fields_by_field_id => ~is_blank(a.base_id)}

UpdateMultipleRecordsArgs ==
    {a \in [base_id : ReqStrings, table_id_or_name : ReqStrings,
            records : UpdateRecordsTexts] :
        (is_blank(a.base_id) \/ is_blank(a.table_id_or_name)) => a.records \in FewTexts}

\* list_records with every optional parameter at its default
ListRecordsDefaults ==
    [base_id |-> <<"a">>, table_id_or_name |-> <<"a">>, cell_format |-> <<"json">>,
     fields |-> EmptyText, filter_by_formula |-> <<>>, max_records |-> Num(0), offset |-> <<>>,
     page_size |-> DefaultPageSize, record_metadata |-> EmptyText,
     return_fields_by_field_id |-> FALSE, sort |-> EmptyText, time_zone |-> <<"utc">>,
     user_locale |-> <<>>, view |-> <<>>]

ListTexts ==
    {EmptyText, SpacesText, Malformed(ExpectingName), Text(Obj(EmptyDict)),
     Text(Arr(<<>>)), Text(Arr(<<Str(<<"Name">>)>>))}

ListRecordsArgs ==
    {[ListRecordsDefaults EXCEPT !.base_id = b, !.table_id_or_name = t]
        : b \in ReqStrings, t \in ReqStrings}
    \cup {[ListRecordsDefaults EXCEPT !.fields = f, !.sort = so, !.record_metadata = m]
        : f \in ListTexts, so \in ListTexts, m \in ListTexts}
    \cup {[ListRecordsDefaults EXCEPT !.cell_format = cf, !.page_size = ps,
                                      !.max_records = mr, !.time_zone = tz]
        : cf \in {<<"json">>, <<" ", "string">>}, ps \in {DefaultPageSize, 50},
          mr \in {Num(0), Num(5), Num(-1), Str(<<"5">>)}, tz \in {<<"utc">>, <<"America/Chicago">>}}
    \cup {[ListRecordsDefaults EXCEPT !.filter_by_formula = ff, !.offset = o,
                                      !.user_locale = ul, !.view = v,
                                      !.return_fields_by_field_id = r]
        : ff \in {<<>>, <<"{Name}='x'">>}, o \in {<<>>, <<" ">>, <<"itr1">>},
          ul \in {<<>>, <<"en">>}, v \in {<<>>, <<"Grid view">>}, r \in BOOLEAN}

----------------------------------------------------------------------------
(* The server: FastMCP runs one tool coroutine per request *)

NoInvocation == [tool |-> "none", args |-> NoArgs]
NoEnvelope == Envelope(EmptyDict, <<>>, FALSE)

\* the requests that are served as coroutines of one event loop
Tasks == 1..MaxTasks

\* a coroutine the loop has created for a request and not yet run
Scheduled == [at |-> "ready", args |-> NoArgs, client |-> None, envelope |-> NoEnvelope]

Init ==
    /\ env_api_key \in EnvValues
    /\ hash_seed \in HashSeeds
    /\ airtable_client = None
    /\ pc = "idle"
    /\ invocation = NoInvocation
    /\ envelope = NoEnvelope
    /\ calls = <<>>
    /\ raised = NoException
    /\ exit = "none"
    /\ upstream_records = EmptyDict
    /\ tasks = [t \in Tasks |-> Scheduled]
    /\ running = 0

\* one tool coroutine runs from entry to its return statement
Return(tool, a, r) ==
    /\ pc' = "returned"
    /\ invocation' = [tool |-> tool, args |-> a]
    /\ envelope' = r.envelope
    /\ airtable_client' = r.client
    /\ calls' = r.calls
    /\ raised' = r.raised
    /\ exit' = r.exit
    /\ UNCHANGED <<env_api_key, hash_seed, tasks, running>>

\* the same against an upstream that answers as it pleases and keeps nothing
Run(tool, a, r) == Return(tool, a, r) /\ UNCHANGED upstream_records

\* the outside world of one call: the upstream's answer and the installed
\* requests release (which only shows when a 2xx body is not JSON)
World ==
    {[up |-> up, build |-> "requests>=2.27"] : up \in Upstream}
    \cup {[up |-> Response(200, "OK", Malformed(ExpectingValue)), build |-> "requests<2.27"]}

Here(w) == Context(airtable_client, env_api_key, hash_seed, w.up, w.build)

\* any world will do for a call that never reaches requests
Quiet == [up |-> NoResponse("ConnectionError"), build |-> "requests>=2.27"]

\* One action per tool: a request arrives with arguments from the tool's
\* argument set and the coroutine runs to its return statement.  The
\* upstream's answer is drawn only if the call goes out.

CreateBase ==
    /\ pc = "idle"
    /\ \E a \in CreateBaseArgs :
          IF airtable_create_base(a, Here(Quiet)).calls = <<>>
          THEN Run("create_base", a, airtable_create_base(a, Here(Quiet)))
          ELSE \E w \in World : Run("create_base", a, airtable_create_base(a, Here(w)))

CreateComment ==
    /\ pc = "idle"
    /\ \E a \in CreateCommentArgs :
          IF airtable_create_comment(a, Here(Quiet)).calls = <<>>
          THEN Run("create_comment", a, airtable_create_comment(a, Here(Quiet)))
          ELSE \E w \in World : Run("create_comment", a, airtable_create_comment(a, Here(w)))

CreateField ==
    /\ pc = "idle"
    /\ \E a \in CreateFieldArgs :
          IF airtable_create_field(a, Here(Quiet)).calls = <<>>
          THEN Run("create_field", a, airtable_create_field(a, Here(Quiet)))
          ELSE \E w \in World : Run("create_field", a, airtable_create_field(a, Here(w)))

CreateMultipleRecords ==
    /\ pc = "idle"
    /\ \E a \in CreateMultipleRecordsArgs :
          IF airtable_create_multiple_records(a, Here(Quiet)).calls = <<>>
          THEN Run("create_multiple_records", a, airtable_create_multiple_records(a, Here(Quiet)))
          ELSE \E w \in World : Run("create_multiple_records", a, airtable_create_multiple_records(a, Here(w)))

CreateRecord ==
    /\ pc = "idle"
    /\ \E a \in CreateRecordArgs :
          IF airtable_create_record(a, Here(Quiet)).calls = <<>>
          THEN Run("create_record", a, airtable_create_record(a, Here(Quiet)))
          ELSE \E w \in World : Run("create_record", a, airtable_create_record(a, Here(w)))

CreateTable ==
    /\ pc = "idle"
    /\ \E a \in CreateTableArgs :
          IF airtable_create_table(a, Here(Quiet)).calls = <<>>
          THEN Run("create_table", a, airtable_create_table(a, Here(Quiet)))
          ELSE \E w \in World : Run("create_table", a, airtable_create_table(a, Here(w)))

GetBaseSchema ==
    /\ pc = "idle"
    /\ \E a \in GetBaseSchemaArgs :
          IF airtable_get_base_schema(a, Here(Quiet)).calls = <<>>
          THEN Run("get_base_schema", a, airtable_get_base_schema(a, Here(Quiet)))
          ELSE \E w \in World : Run("get_base_schema", a, airtable_get_base_schema(a, Here(w)))

GetRecord ==
    /\ pc = "idle"
    /\ \E a \in GetRecordArgs :
          IF airtable_get_record(a, Here(Quiet)).calls = <<>>
          THEN Run("get_record", a, airtable_get_record(a, Here(Quiet)))
          ELSE \E w \in World : Run("get_record", a, airtable_get_record(a, Here(w)))

GetUserInfo ==
    /\ pc = "idle"
    /\ \E a \in {NoArgs} :
          IF airtable_get_user_info(a, Here(Quiet)).calls = <<>>
          THEN Run("get_user_info", a, airtable_get_user_info(a, Here(Quiet)))
          ELSE \E w \in World : Run("get_user_info", a, airtable_get_user_info(a, Here(w)))

ListBases ==
    /\ pc = "idle"
    /\ \E a \in {NoArgs} :
          IF airtable_list_bases(a, Here(Quiet)).calls = <<>>
          THEN Run("list_bases", a, airtable_list_bases(a, Here(Quiet)))
          ELSE \E w \in World : Run("list_bases", a, airtable_list_bases(a, Here(w)))

ListComments ==
    /\ pc = "idle"
    /\ \E a \in RecordArgs :
          IF airtable_list_comments(a, Here(Quiet)).calls = <<>>
          THEN Run("list_comments", a, airtable_list_comments(a, Here(Quiet)))
          ELSE \E w \in World : Run("list_comments", a, airtable_list_comments(a, Here(w)))

DeleteRecord ==
    /\ pc = "idle"
    /\ \E a \in RecordArgs :
          IF airtable_delete_record(a, Here(Quiet)).calls = <<>>
          THEN Run("delete_record", a, airtable_delete_record(a, Here(Quiet)))
          ELSE \E w \in World : Run("delete_record", a, airtable_delete_record(a, Here(w)))

DeleteMultipleRecords ==
    /\ pc = "idle"
    /\ \E a \in DeleteMultipleRecordsArgs :
          IF airtable_delete_multiple_records(a, Here(Quiet)).calls = <<>>
          THEN Run("delete_multiple_records", a, airtable_delete_multiple_records(a, Here(Quiet)))
          ELSE \E w \in World : Run("delete_multiple_records", a, airtable_delete_multiple_records(a, Here(w)))

DeleteComment ==
    /\ pc = "idle"
    /\ \E a \in DeleteCommentArgs :
          IF airtable_delete_comment(a, Here(Quiet)).calls = <<>>
          THEN Run("delete_comment", a, airtable_delete_comment(a, Here(Quiet)))
          ELSE \E w \in World : Run("delete_comment", a, airtable_delete_comment(a, Here(w)))

UpdateRecord ==
    /\ pc = "idle"
    /\ \E a \in UpdateRecordArgs :
          IF airtable_update_record(a, Here(Quiet)).calls = <<>>
          THEN Run("update_record", a, airtable_update_record(a, Here(Quiet)))
          ELSE \E w \in World : Run("update_record", a, airtable_update_record(a, Here(w)))

UpdateMultipleRecords ==
    /\ pc = "idle"
    /\ \E a \in UpdateMultipleRecordsArgs :
          IF airtable_update_multiple_records(a, Here(Quiet)).calls = <<>>
          THEN Run("update_multiple_records", a, airtable_update_multiple_records(a, Here(Quiet)))
          ELSE \E w \in World : Run("update_multiple_records", a, airtable_update_multiple_records(a, Here(w)))

ListRecords ==
    /\ pc = "idle"
    /\ \E a \in ListRecordsArgs :
          IF airtable_list_records(a, Here(Quiet)).calls = <<>>
          THEN Run("list_records", a, airtable_list_records(a, Here(Quiet)))
          ELSE \E w \in World : Run("list_records", a, airtable_list_records(a, Here(w)))

\* the envelope goes back to the caller and the server waits for the next request
Respond ==
    /\ pc = "returned"
    /\ pc' = "idle"
    /\ invocation' = NoInvocation
    /\ envelope' = NoEnvelope
    /\ calls' = <<>>
    /\ raised' = NoException
    /\ exit' = "none"
    /\ UNCHANGED <<env_api_key, hash_seed, airtable_client, upstream_records, tasks, running>>

Next ==
    \/ CreateBase \/ CreateComment \/ CreateField \/ CreateMultipleRecords
    \/ CreateRecord \/ CreateTable \/ GetBaseSchema \/ GetRecord \/ GetUserInfo
    \/ ListBases \/ ListComments \/ DeleteRecord \/ DeleteMultipleRecords
    \/ DeleteComment \/ UpdateRecord \/ UpdateMultipleRecords \/ ListRecords
    \/ Respond

Spec == Init /\ [][Next]_vars

----------------------------------------------------------------------------
(* The record endpoint of an upstream that stores: PATCH writes the fields
   sent into the record at the URL and answers with the record, GET answers
   with the record at the URL *)

StoringIds == {<<"a">>, <<" ", "a", " ">>, <<"b">>}

StoringFields ==
    {Text(Obj([Name |-> Str(<<"x">>)])), Text(Obj([Name |-> Str(<<"y">>)])),
     Text(Obj([Notes |-> Str(<<"n">>)])), Malformed(ExpectingName)}

StoringUpdateArgs ==
    [base_id : {<<"a">>}, table_id_or_name : {<<"a">>, <<"b", " ">>},
     record_id : StoringIds \cup {<<" ">>}, fields : StoringFields,
     return_fields_by_field_id : {FALSE}]

StoringGetArgs ==
    [base_id : {<<"a">>}, table_id_or_name : {<<"a">>, <<"b", " ">>},
     record_id : StoringIds, cell_format : {<<"json">>},
     return_fields_by_field_id : {FALSE}]

\* the fields of a record after a PATCH: those sent replace those held
merged(held, sent) ==
    [k \in DOMAIN held \cup DOMAIN sent |-> IF k \in DOMAIN sent THEN sent[k] ELSE held[k]]

\* what the upstream holds once it has served the request
stored_after(records, request) ==
    IF request.method = "PATCH"
    THEN LET held == IF request.url \in DOMAIN records
                     THEN records[request.url].v.fields.v ELSE EmptyDict
             record == Obj([id |-> Str(<<request.url[Len(request.url)]>>),
                            fields |-> Obj(merged(held, request.json.fields.v))])
         IN  [u \in DOMAIN records \cup {request.url} |->
                 IF u = request.url THEN record ELSE records[u]]
    ELSE records

\* its answer: the stored record, or 404 when it holds none at the URL
answer_of(records, request) ==
    LET now == stored_after(records, request)
    IN  IF request.url \in DOMAIN now
        THEN Response(200, "OK", Text(now[request.url]))
        ELSE Response(404, "Not Found",
                      Text(Obj([error |-> Obj([type |-> Str(<<"NOT_FOUND">>),
                                               message |-> Str(<<"Record not found">>)])])))

Storing(request) ==
    [up |-> answer_of(upstream_records, request), build |-> "requests>=2.27"]

UpdateRecordStoring ==
    /\ pc = "idle"
    /\ \E a \in StoringUpdateArgs :
          LET sent == airtable_update_record(a, Here(Quiet)).calls
          IN  IF sent = <<>>
              THEN Run("update_record", a, airtable_update_record(a, Here(Quiet)))
              ELSE /\ Return("update_record", a,
                             airtable_update_record(a, Here(Storing(sent[1].request))))
                   /\ upstream_records' = stored_after(upstream_records, sent[1].request)

GetRecordStoring ==
    /\ pc = "idle"
    /\ \E a \in StoringGetArgs :
          LET sent == airtable_get_record(a, Here(Quiet)).calls
          IN  IF sent = <<>>
              THEN Run("get_record", a, airtable_get_record(a, Here(Quiet)))
              ELSE /\ Return("get_record", a,
                             airtable_get_record(a, Here(Storing(sent[1].request))))
                   /\ upstream_records' = stored_after(upstream_records, sent[1].request)

NextStoring == UpdateRecordStoring \/ GetRecordStoring \/ Respond

SpecStoring == Init /\ [][NextStoring]_vars

----------------------------------------------------------------------------
(* A process whose environment is changed while it runs: os.getenv reads
   os.environ anew on every acquisition of the client, so a credential put
   there after the start is seen by the next invocation *)

LaterKey == <<"patLATER">>

\* the process starts without its credential
InitEnv == Init /\ ~(env_api_key.set /\ env_api_key.value # <<>>)

\* between two invocations the variable is set, emptied or removed
Setenv ==
    /\ pc = "idle"
    /\ ~(env_api_key.set /\ env_api_key.value # <<>>)
    /\ \E v \in EnvValues \cup {[set |-> TRUE, value |-> LaterKey]} :
          /\ v # env_api_key
          /\ v.value \in {<<>>, LaterKey}
          /\ env_api_key' = v
    /\ UNCHANGED <<hash_seed, airtable_client, pc, invocation, envelope, calls, raised, exit,
                   upstream_records, tasks, running>>

NextEnv == Next \/ Setenv

SpecEnv == InitEnv /\ [][NextEnv]_vars

----------------------------------------------------------------------------
(* The event loop with several requests scheduled: each airtable_get_record
   coroutine taken step by step.  The loop's one thread executes a
   coroutine until it reaches a suspension point (an await) or returns;
   only then can the loop run another one. *)

SuspensionPoints_at_call == {"waiting"}

\* the positions of the coroutine at which it awaits: the tool, the
\* function get_airtable_client and the method get_record hold no await
SuspensionPoints == {}

LoopArgs ==
    {a \in GetRecordArgs :
        /\ a.base_id \in {<<>>, <<"a">>}
        /\ a.table_id_or_name = <<"a">> /\ a.record_id = <<"a">>
        /\ a.cell_format = <<"json">> /\ ~a.return_fields_by_field_id}

LoopWorlds ==
    {w \in World :
        /\ w.build = "requests>=2.27"
        /\ w.up \in {Response(200, "OK", Text(RichBody(1))), NoResponse("ReadTimeout")}}

\* everything the coroutines of the loop do not touch
LoopFrame ==
    UNCHANGED <<env_api_key, hash_seed, pc, invocation, envelope, calls, raised, exit,
                upstream_records>>

\* coroutine t has moved on: it keeps the thread unless it now awaits or
\* has returned
Moved(t, task) ==
    /\ tasks' = [tasks EXCEPT ![t] = task]
    /\ running' = IF task.at \in SuspensionPoints \/ task.at = "done" THEN 0 ELSE t

\* the loop, with no coroutine on its thread, runs one that is not finished
Resume ==
    /\ running = 0
    /\ \E t \in Tasks : tasks[t].at # "done" /\ running' = t
    /\ UNCHANGED <<tasks, airtable_client>>
    /\ LoopFrame

\* the coroutine starts: the required-string checks
Enter ==
    \E t \in Tasks :
        /\ running = t /\ tasks[t].at = "ready"
        /\ \E a \in LoopArgs :
              LET r == airtable_get_record(a, Here(Quiet))
              IN  IF r.exit = "validation"
                  THEN Moved(t, [Scheduled EXCEPT !.at = "return", !.args = a,
                                                  !.envelope = r.envelope])
                  ELSE Moved(t, [Scheduled EXCEPT !.at = "test", !.args = a])
        /\ UNCHANGED airtable_client
        /\ LoopFrame

\* get_airtable_client: "if airtable_client is None", and the credential
TestNone ==
    \E t \in Tasks :
        /\ running = t /\ tasks[t].at = "test"
        /\ IF airtable_client # None
           THEN Moved(t, [tasks[t] EXCEPT !.at = "call", !.client = airtable_client])
           ELSE LET c == get_airtable_client(None, env_api_key)
                IN  IF c.raised
                    THEN Moved(t, [tasks[t] EXCEPT
                                      !.at = "return",
                                      !.envelope = except_Exception(None, <<>>, c.exc).envelope])
                    ELSE Moved(t, [tasks[t] EXCEPT !.at = "construct"])
        /\ UNCHANGED airtable_client
        /\ LoopFrame

\* get_airtable_client: "airtable_client = AirtableClient(api_key)"
Construct ==
    \E t \in Tasks :
        /\ running = t /\ tasks[t].at = "construct"
        /\ airtable_client' = AirtableClient__init__(getenv(env_api_key),
                                                     constructed(airtable_client) + 1)
        /\ Moved(t, [tasks[t] EXCEPT !.at = "call", !.client = airtable_client'])
        /\ LoopFrame

\* AirtableClient.get_record enters requests.get, which blocks the thread
CallOut ==
    \E t \in Tasks :
        /\ running = t /\ tasks[t].at = "call"
        /\ Moved(t, [tasks[t] EXCEPT !.at = "waiting"])
        /\ UNCHANGED airtable_client
        /\ LoopFrame

\* requests.get returns or raises; the tool builds its envelope
Answer ==
    \E t \in Tasks :
        /\ running = t /\ tasks[t].at = "waiting"
        /\ \E w \in LoopWorlds :
              LET r == airtable_get_record(tasks[t].args,
                           Context(tasks[t].client, env_api_key, hash_seed, w.up, w.build))
              IN  Moved(t, [tasks[t] EXCEPT !.at = "return", !.envelope = r.envelope])
        /\ UNCHANGED airtable_client
        /\ LoopFrame

\* the return statement: the coroutine is finished, the loop has its thread
Finish ==
    \E t \in Tasks :
        /\ running = t /\ tasks[t].at = "return"
        /\ Moved(t, [tasks[t] EXCEPT !.at = "done"])
        /\ UNCHANGED airtable_client
        /\ LoopFrame

\* the envelope is sent and another request takes the place of the task
Again ==
    /\ running = 0
    /\ \E t \in Tasks : tasks[t].at = "done" /\ tasks' = [tasks EXCEPT ![t] = Scheduled]
    /\ UNCHANGED <<running, airtable_client>>
    /\ LoopFrame

NextLoop ==
    \/ Resume \/ Enter \/ TestNone \/ Construct \/ CallOut \/ Answer \/ Finish \/ Again

SpecLoop == Init /\ [][NextLoop]_vars

----------------------------------------------------------------------------
(* Properties *)

Returned_ == pc = "returned"
Tool == invocation.tool
Args == invocation.args

\* the process can build its client: the credential is there, or the client is
Configured == airtable_client # None \/ (env_api_key.set /\ env_api_key.value # <<>>)

\* a Python string with at least one character
nonempty(msg) == \E i \in 1..Len(msg) : msg[i] # ""

SuccessShape ==
    DOMAIN envelope.data # {} /\ ~nonempty(envelope.error) /\ envelope.successful = TRUE

FailureShape ==
    DOMAIN envelope.data = {} /\ nonempty(envelope.error) /\ envelope.successful = FALSE

\* C1: every envelope returned by a tool other than create_base has exactly
\* one of the two shapes: populated data, empty error, successful true; or
\* empty data, non-empty error, successful false.
C1_EnvelopeShape ==
    (Returned_ /\ Tool # "create_base") =>
        (SuccessShape \/ FailureShape) /\ ~(SuccessShape /\ FailureShape)

\* an upstream HTTP error caught at the boundary of list_records
C1_Witness ==
    /\ Returned_ /\ Tool = "list_records" /\ exit = "except Exception"
    /\ raised.type = "AirtableAPIError" /\ raised.status_code = 401
    /\ FailureShape

\* the required string parameters of each tool in the order they are
\* checked, each with the message that names it
Required ==
    [create_base |-> << <<"name", "Base name is required">>,
                        <<"workspace_id", "Workspace ID is required">>,
                        <<"tables", "Tables configuration is required">> >>,
     create_comment |-> << <<"base_id", "Base ID is required">>,
                           <<"record_id", "Record ID is required">>,
                           <<"table_id_or_name", "Table ID or name is required">>,
                           <<"text", "Comment text is required">> >>,
     create_field |-> << <<"base_id", "Base ID is required">>,
                         <<"table_id", "Table ID is required">>,
                         <<"name", "Field name is required">> >>,
     create_multiple_records |-> << <<"base_id", "Base ID is required">>,
                                    <<"table_id_or_name", "Table ID or name is required">>,
                                    <<"records", "Records data is required">> >>,
     create_record |-> << <<"base_id", "Base ID is required">>,
                          <<"table_id_or_name", "Table ID or name is required">>,
                          <<"fields", "Fields data is required">> >>,
     create_table |-> << <<"base_id", "Base ID is required">>,
                         <<"name", "Table name is required">>,
                         <<"fields", "Fields data is required">> >>,
     get_base_schema |-> << <<"base_id", "Base ID is required">> >>,
     get_record |-> << <<"base_id", "Base ID is required">>,
                       <<"table_id_or_name", "Table ID or name is required">>,
                       <<"record_id", "Record ID is required">> >>,
     get_user_info |-> << >>,
     list_bases |-> << >>,
     list_comments |-> << <<"base_id", "Base ID is required">>,
                          <<"table_id_or_name", "Table ID or name is required">>,
                          <<"record_id", "Record ID is required">> >>,
     delete_record |-> << <<"base_id", "Base ID is required">>,
                          <<"table_id_or_name", "Table ID or name is required">>,
                          <<"record_id", "Record ID is required">> >>,
     delete_multiple_records |-> << <<"base_id", "Base ID is required">>,
                                    <<"table_id_or_name", "Table ID or name is required">>,
                                    <<"record_ids", "Record IDs are required">> >>,
     delete_comment |-> << <<"base_id", "Base ID is required">>,
                           <<"table_id_or_name", "Table ID or name is required">>,
                           <<"record_id", "Record ID is required">>,
                           <<"row_comment_id", "Row comment ID is required">> >>,
     update_record |-> << <<"base_id", "Base ID is required">>,
                          <<"table_id_or_name", "Table ID or name is required">>,
                          <<"record_id", "Record ID is required">>,
                          <<"fields", "Fields data is required">> >>,
     update_multiple_records |-> << <<"base_id", "Base ID is required">>,
                                    <<"table_id_or_name", "Table ID or name is required">>,
                                    <<"records", "Records data is required">> >>,
     list_records |-> << <<"base_id", "Base ID is required">>,
                         <<"table_id_or_name", "Table ID or name is required">> >>]

\* the required parameters that carry JSON
JsonParams == {"tables", "records", "fields", "record_ids"}

\* the i-th required parameter of the call is empty or whitespace only
BlankAt(i) ==
    LET p == Required[Tool][i][1]
    IN  IF p \in JsonParams THEN text_is_blank(Args[p]) ELSE is_blank(Args[p])

\* the required parameters up to the i-th are all filled in
FilledBefore(i) == \A j \in 1..(i - 1) : ~BlankAt(j)

RequiredFilled == FilledBefore(Len(Required[Tool]) + 1)

\* C2: in every process state, credential absent included, a call with a
\* blank required string parameter returns successful == false with the
\* "<Field> is required" message of a blank parameter and issues no call.
C2_BlankRequiredRejected ==
    (Returned_ /\ ~RequiredFilled) =>
        /\ envelope.successful = FALSE
        /\ \E i \in 1..Len(Required[Tool]) :
              BlankAt(i) /\ envelope.error = <<Required[Tool][i][2]>>
        /\ calls = <<>>

\* C3: a call that ends in a validation return has issued no outbound call.
C3_ValidationBeforeNetwork == (Returned_ /\ exit = "validation") => calls = <<>>

\* a bulk delete turned down for its 11 record IDs
C3_Witness ==
    /\ Returned_ /\ Tool = "delete_multiple_records" /\ exit = "validation"
    /\ envelope.error = <<"Maximum 10 records can be deleted at once">>
    /\ calls = <<>>

\* the JSON-string parameters of each tool in the order they are decoded,
\* each with the top-level shape it must have, the head of its invalid-JSON
\* message and its wrong-shape message
JsonShape ==
    [create_base |-> << <<"tables", "arr", "Invalid JSON format for tables parameter: ",
                          "Tables must be an array of table objects">> >>,
     create_comment |-> << >>,
     create_field |-> << >>,
     create_multiple_records |->
         << <<"records", "arr", "Invalid JSON format for records parameter: ",
              "Records must be an array of record objects">> >>,
     create_record |-> << <<"fields", "obj", "Invalid JSON format for fields parameter: ",
                            "Fields must be a JSON object">> >>,
     create_table |-> << <<"fields", "arr", "Invalid JSON format for fields parameter: ",
                           "Fields must be an array of field objects">> >>,
     get_base_schema |-> << >>,
     get_record |-> << >>,
     get_user_info |-> << >>,
     list_bases |-> << >>,
     list_comments |-> << >>,
     delete_record |-> << >>,
     delete_multiple_records |->
         << <<"record_ids", "arr", "Invalid JSON format for record_ids parameter: ",
              "Record IDs must be an array of record ID strings">> >>,
     delete_comment |-> << >>,
     update_record |-> << <<"fields", "obj", "Invalid JSON format for fields parameter: ",
                            "Fields must be a JSON object">> >>,
     update_multiple_records |->
         << <<"records", "arr", "Invalid JSON format for records parameter: ",
              "Records must be an array of record objects">> >>,
     list_records |-> << <<"fields", "arr", "Invalid JSON format for fields parameter: ",
                           "Fields must be a JSON array">>,
                         <<"sort", "arr", "Invalid JSON format for sort parameter: ",
                           "Sort must be a JSON array">>,
                         <<"record_metadata", "arr",
                           "Invalid JSON format for record_metadata parameter: ",
                           "Record metadata must be a JSON array">> >>]

\* the tools that ask for the client before they decode their JSON
ClientBeforeJson == {"create_base", "list_records"}

\* the text is JSON, but not of the given top-level shape
WrongShape(x, shape) == x.k = "json" /\ x.doc.t # shape

\* the JSON parameters decoded before the i-th are absent or fine
JsonFineBefore(i) ==
    \A j \in 1..(i - 1) :
        LET q == JsonShape[Tool][j]
        IN  text_is_blank(Args[q[1]]) \/ (Args[q[1]].k = "json" /\ Args[q[1]].doc.t = q[2])

RecordIds == Args.record_ids.doc.v

\* the i-th record ID is a string with something besides whitespace in it
GoodRecordId(i) == RecordIds[i].t = "str" /\ ~is_blank(RecordIds[i].v)

\* the sequence ends with the given one
EndsWith(whole, tail) ==
    /\ Len(tail) <= Len(whole)
    /\ SubSeq(whole, Len(whole) - Len(tail) + 1, Len(whole)) = tail

\* C5: delete_multiple_records with non-blank base_id and table_id_or_name
\* and a JSON array of record IDs: 0 or more than 10 entries are rejected
\* without a network call; 1 to 10 entries, all non-blank strings, go to the
\* transport client in exactly one DELETE call that carries them all; 1 to
\* 10 entries with one that is not a string or is blank are rejected, the
\* error citing the index of the first such entry.
C5_DeleteMultipleBounds ==
    (/\ Returned_ /\ Tool = "delete_multiple_records"
     /\ ~is_blank(Args.base_id) /\ ~is_blank(Args.table_id_or_name)
     /\ Args.record_ids.k = "json" /\ Args.record_ids.doc.t = "arr") =>
        LET n == Len(RecordIds)
        IN  /\ (n = 0 \/ n > 10) => (envelope.successful = FALSE /\ calls = <<>>)
            /\ (n \in 1..10 /\ Configured /\ \A i \in 1..n : GoodRecordId(i)) =>
                  /\ Len(calls) = 1
                  /\ calls[1].request.method = "DELETE"
                  /\ EndsWith(calls[1].request.url, <<"?">> \o join_record_params(RecordIds))
            /\ (n \in 1..10 /\ \E i \in 1..n : ~GoodRecordId(i)) =>
                  /\ envelope.successful = FALSE
                  /\ calls = <<>>
                  /\ \E i \in 1..n :
                        /\ ~GoodRecordId(i)
                        /\ \A j \in 1..(i - 1) : GoodRecordId(j)
                        /\ envelope.error = <<"Record ID at index ", ToString(i - 1),
                                              " must be a non-empty string">>

\* ten record IDs deleted in one call
C5_Witness ==
    /\ Returned_ /\ Tool = "delete_multiple_records"
    /\ Args.record_ids.k = "json" /\ Args.record_ids.doc.t = "arr"
    /\ Len(RecordIds) = 10
    /\ Len(calls) = 1 /\ calls[1].request.method = "DELETE"
    /\ envelope.successful = TRUE

\* the entry is not an object, or is an object without one of the keys
Lacks(entry, keys) == entry.t # "obj" \/ \E k \in keys : k \notin DOMAIN entry.v

\* a call turned down for the first of its entries that lacks a key
RejectedAtFirst(entries, keys, head, tail) ==
    /\ envelope.successful = FALSE
    /\ calls = <<>>
    /\ \E i \in 1..Len(entries) :
          /\ Lacks(entries[i], keys)
          /\ \A j \in 1..(i - 1) : ~Lacks(entries[j], keys)
          /\ envelope.error = <<head, ToString(i - 1), tail>>

\* the JSON-string parameter holds a JSON array
IsArrayText(x) == x.k = "json" /\ x.doc.t = "arr"

NamesFirstOffender(entries, keys) ==
    /\ envelope.successful = FALSE
    /\ calls = <<>>
    /\ \E i \in 1..Len(entries) :
          /\ Lacks(entries[i], keys)
          /\ \A j \in 1..(i - 1) : ~Lacks(entries[j], keys)
          /\ Len(envelope.error) = 3
          /\ envelope.error[1] = "Record at index "
          /\ envelope.error[2] = ToString(i - 1)

\* the records array went to the transport client only with every entry an
\* object that has the keys, and as it was decoded
ForwardedOnlyWith(keys) ==
    calls # <<>> =>
        /\ IsArrayText(Args.records)
        /\ \A i \in 1..Len(Args.records.doc.v) : ~Lacks(Args.records.doc.v[i], keys)
        /\ calls[1].request.json = [records |-> Args.records.doc]

\* a records array with an entry lacking a key is turned down at that entry
OffenderNamed(keys) ==
    (/\ RequiredFilled /\ IsArrayText(Args.records)
     /\ \E i \in 1..Len(Args.records.doc.v) : Lacks(Args.records.doc.v[i], keys)) =>
        NamesFirstOffender(Args.records.doc.v, keys)

\* C7: create_multiple_records forwards a records array only if every entry
\* is an object containing 'fields', update_multiple_records only if every
\* entry is an object containing 'id' and 'fields'; an array with another
\* entry yields successful == false, the error naming the first such index,
\* and no network call.
C7_BulkEntriesChecked ==
    /\ (Returned_ /\ Tool = "create_multiple_records") =>
           (ForwardedOnlyWith({"fields"}) /\ OffenderNamed({"fields"}))
    /\ (Returned_ /\ Tool = "update_multiple_records") =>
           (ForwardedOnlyWith({"id", "fields"}) /\ OffenderNamed({"id", "fields"}))

\* a bulk update whose second record has no 'id'
C7_Witness ==
    /\ Returned_ /\ Tool = "update_multiple_records"
    /\ IsArrayText(Args.records) /\ Len(Args.records.doc.v) = 2
    /\ ~Lacks(Args.records.doc.v[1], {"id", "fields"})
    /\ Args.records.doc.v[2] = Obj([fields |-> FieldsValue])
    /\ envelope.error = <<"Record at index ", "1", " must have an 'id' field">>
    /\ envelope.successful = FALSE /\ calls = <<>>

C9_ApiErrorDispatched ==
    (Returned_ /\ calls # <<>> /\ raised.type = "AirtableAPIError") =>
        /\ envelope.successful = FALSE
        /\ envelope.error = api_error_message(raised)
        /\ (calls[1].response.t = "response" /\ calls[1].response.status = 401
            /\ raised.error_type = <<"INVALID_API_KEY">>) =>
              /\ Mentions(envelope.error, "INVALID_API_KEY")
              /\ Mentions(envelope.error,
                          "\n\nInvalid API key. Please check your AIRTABLE_API_KEY.")

\* C10: when a request gets no HTTP response (connection failure, timeout)
\* the transport method raises AirtableAPIError with kind network_error and
\* status code 0, and the envelope of the tool has successful == false and
\* an error that reports the network error.
C10_NoResponseIsNetworkError ==
    (Returned_ /\ calls # <<>> /\ calls[1].response.t = "no_response") =>
        /\ raised.type = "AirtableAPIError"
        /\ raised.error_type = <<"network_error">>
        /\ raised.status_code = 0
        /\ raised.message = <<"Network error: ", calls[1].response.exc>>
        /\ envelope.successful = FALSE
        /\ DOMAIN envelope.data = {}
        /\ Mentions(envelope.error, "network_error")
        /\ Mentions(envelope.error, "Network error: ")

\* a comment that could not be posted because the request timed out
C10_Witness ==
    /\ Returned_ /\ Tool = "create_comment"
    /\ Len(calls) = 1 /\ calls[1].request.method = "POST"
    /\ calls[1].response = NoResponse("ReadTimeout")
    /\ raised.error_type = <<"network_error">> /\ raised.status_code = 0
    /\ envelope.successful = FALSE

\* the transport call of the invocation was answered with an error status
AnsweredWithError ==
    /\ calls # <<>>
    /\ calls[1].response.t = "response"
    /\ raises_for_status(calls[1].response.status)

\* the 'error' member of a response body, when the body is a JSON object
\* that has one and the member is an object itself
ProvidesError(body) ==
    /\ body.k = "json" /\ body.doc.t = "obj"
    /\ "error" \in DOMAIN body.doc.v
    /\ body.doc.v.error.t = "obj"

\* error.type when the body provides it, unknown_error otherwise
KindOf(body) ==
    IF ProvidesError(body) /\ "type" \in DOMAIN body.doc.v.error.v
    THEN body.doc.v.error.v.type.v
    ELSE <<"unknown_error">>

\* error.message when the body provides it, the text of the HTTPError otherwise
MessageOf(call) ==
    IF ProvidesError(call.response.text) /\ "message" \in DOMAIN call.response.text.doc.v.error.v
    THEN call.response.text.doc.v.error.v.message.v
    ELSE HTTPError_str(call.response, call.request.url)

\* C11: whatever the body of a response with an error status, the transport
\* method raises AirtableAPIError with the upstream status code, with kind
\* error.type when the body provides it and unknown_error otherwise, and
\* with message error.message when provided and the text of the HTTPError
\* otherwise; no other exception type leaves the method.
C11_HttpErrorNormalized ==
    (Returned_ /\ AnsweredWithError) =>
        /\ raised.type = "AirtableAPIError"
        /\ raised.status_code = calls[1].response.status
        /\ raised.error_type = KindOf(calls[1].response.text)
        /\ raised.message = MessageOf(calls[1])

\* the transport call of the invocation was answered, whatever the status
Answered == calls # <<>> /\ calls[1].response.t = "response"

\* C12: network_error with status code 0 is raised only when no HTTP
\* response was received: for a call that was answered, with any status
\* and any body, the transport method returns the decoded body or raises an
\* error carrying the status code of the response, never network_error/0
\* (and no decoder exception of its own).
C12_NetworkErrorOnlyUnanswered ==
    (Returned_ /\ Answered) =>
        /\ ~(/\ raised.type = "AirtableAPIError"
             /\ raised.error_type = <<"network_error">>
             /\ raised.status_code = 0)
        /\ raised.type = "AirtableAPIError" =>
              raised.status_code = calls[1].response.status
        /\ raised.type # "JSONDecodeError"

\* the record the storing upstream holds for the record a get_record asks for
HeldRecord == upstream_records[calls[1].request.url]

\* C13: against an upstream that stores, a get_record that follows a
\* successful update_record of the same record with fields {"Name": "x"}
\* returns a successful envelope whose data.record has fields.Name == "x"
\* (stated for whatever Name the upstream holds after the last update).
C13_ReadAfterWrite ==
    (/\ Returned_ /\ Tool = "get_record" /\ calls # <<>>
     /\ calls[1].request.url \in DOMAIN upstream_records
     /\ has_key(HeldRecord.v.fields, "Name")) =>
        /\ envelope.successful = TRUE
        /\ is_dict(envelope.data.record)
        /\ has_key(envelope.data.record, "fields")
        /\ has_key(envelope.data.record.v.fields, "Name")
        /\ envelope.data.record.v.fields.v.Name = HeldRecord.v.fields.v.Name

\* the process has its credential
CredentialPresent == env_api_key.set /\ env_api_key.value # <<>>

\* C14: with the credential present, over any sequence of tool invocations
\* (a tool coroutine never yields, so invocations do not interleave inside
\* one another) the client is built lazily and once: a step that sets the
\* global is the step of an invocation that needs the client, the object it
\* sets is the first one constructed, once set the global is never written
\* again, and every later call goes out with that object's headers.
C14_ClientBuiltOnce ==
    [][CredentialPresent =>
        /\ (airtable_client = None /\ airtable_client' # None) =>
              /\ pc = "idle" /\ pc' = "returned"
              /\ calls' # <<>> \/ invocation'.tool \in ClientBeforeJson
              /\ airtable_client'.nth = 1
        /\ airtable_client # None => airtable_client' = airtable_client
        /\ (airtable_client # None /\ calls' # <<>>) =>
              calls'[1].request.headers = airtable_client.headers]_vars

\* idle again after the invocation that built the client: the one object
\* is kept for the invocations to come
C14_Witness ==
    /\ pc = "idle"
    /\ airtable_client # None /\ airtable_client.nth = 1
    /\ CredentialPresent

\* the envelope of an invocation that failed for want of the credential
ConfigurationError ==
    /\ raised.type = "ValueError"
    /\ envelope.successful = FALSE
    /\ DOMAIN envelope.data = {}
    /\ envelope.error = <<"Unexpected error: ",
                          "AIRTABLE_API_KEY environment variable is required">>
    /\ calls = <<>>

\* C15: with AIRTABLE_API_KEY unset or empty nothing has failed when the
\* process awaits its first request and no client is ever built; an
\* invocation that gets as far as asking for the client ends with
\* successful == false, data == {} and an error carrying
\* "AIRTABLE_API_KEY environment variable is required", and issues no
\* network call.
C15_MissingCredential ==
    ~CredentialPresent =>
        /\ airtable_client = None
        /\ pc = "idle" => (raised = NoException /\ envelope = NoEnvelope)
        /\ (Returned_ /\ exit # "validation") => ConfigurationError
        /\ calls = <<>>

\* get_user_info in a process whose AIRTABLE_API_KEY is set but empty
C15_Witness ==
    /\ Returned_ /\ Tool = "get_user_info"
    /\ env_api_key.set /\ env_api_key.value = <<>>
    /\ ConfigurationError


\* a call that failed: answered with an error status, or not answered
CallFailed ==
    /\ calls # <<>>
    /\ \/ calls[1].response.t # "response"
       \/ raises_for_status(calls[1].response.status)

\* C16: every tool invocation issues at most one outbound call: a failed
\* call is not repeated, a list answer carrying an offset is not followed
\* up, a bulk payload is not split; the failure of the one call is returned
\* by the same invocation as a failure envelope
C16_AtMostOneCall ==
    Returned_ =>
        /\ Len(calls) <= 1
        /\ CallFailed =>
              /\ Len(calls) = 1
              /\ envelope.successful = FALSE
              /\ envelope.error # <<>>
              /\ envelope.data = EmptyDict

C16_Witness ==
    /\ Returned_ /\ Tool = "list_records"
    /\ Len(calls) = 1 /\ CallFailed
    /\ envelope.successful = FALSE


\* the ways a tool coroutine ends with a return statement
ReturnExits == {"validation", "success", "except Exception", "except AirtableAPIError"}

\* a failure that is neither a validation error nor an AirtableAPIError
OtherFailure == raised # NoException /\ raised.type # "AirtableAPIError"

\* C17: no failure leaves a tool as a raised exception: every invocation
\* ends at a return statement with an envelope, and a failure that is
\* neither a validation error nor an AirtableAPIError (client acquisition,
\* a success body of an unexpected shape, a wrong-typed argument) returns
\* {data: {}, error: "Unexpected error: <message>", successful: false}
C17_NothingEscapes ==
    Returned_ =>
        /\ exit \in ReturnExits
        /\ DOMAIN envelope = {"data", "error", "successful"}
        /\ OtherFailure =>
              envelope = Envelope(EmptyDict, <<"Unexpected error: ">> \o str(raised), FALSE)

C17_Witness ==
    /\ Returned_ /\ Tool = "list_records"
    /\ Args.max_records.t = "str"
    /\ raised.type = "TypeError"
    /\ envelope.error[1] = "Unexpected error: "


\* occurrences of a fragment in a string
RECURSIVE Count(_, _)
Count(msg, fragment) ==
    IF msg = <<>> THEN 0
    ELSE Count(Tail(msg), fragment) + (IF Head(msg) = fragment THEN 1 ELSE 0)

\* the first n record IDs as query parameters, written from the last one back
RECURSIVE RecordsQuery(_, _)
RecordsQuery(ids, n) ==
    IF n = 0 THEN <<>>
    ELSE RecordsQuery(ids, n - 1) \o (IF n > 1 THEN <<"&">> ELSE <<>>)
         \o <<"records[]=">> \o ids[n].v

\* C18: the one request of delete_multiple_records is a DELETE of
\* <base_url>/<base_id>/<table_id_or_name> followed by a single '?' and one
\* records[]=<id> per record ID, in the order given, duplicates kept,
\* joined by '&'; it carries no JSON body and no separate parameters
C18_BulkDeleteEncoding ==
    (Returned_ /\ Tool = "delete_multiple_records" /\ calls # <<>>) =>
        LET request == calls[1].request
            path == airtable_client.base_url \o <<"/">> \o strip(Args.base_id)
                    \o <<"/">> \o strip(Args.table_id_or_name)
        IN  /\ request.method = "DELETE"
            /\ request.url = path \o <<"?">> \o RecordsQuery(RecordIds, Len(RecordIds))
            /\ Count(request.url, "records[]=") = Len(RecordIds)
            /\ Count(request.url, "&") = Len(RecordIds) - 1
            /\ Count(request.url, "?") = 1
            /\ request.json = NoBody
            /\ request.params = NoParams

C18_Witness ==
    /\ Returned_ /\ Tool = "delete_multiple_records" /\ calls # <<>>
    /\ Len(RecordIds) = 2 /\ RecordIds[1] = RecordIds[2]
    /\ Count(calls[1].request.url, "records[]=") = 2


\* the query parameters of the one request of the invocation
SentParams == DOMAIN calls[1].request.params

\* a JSON-array argument of list_records has entries
HasEntries(text) == text.k = "json" /\ text.doc.t = "arr" /\ text.doc.v # <<>>

\* the query parameters get_record attaches for the arguments it was handed
GetRecordParams ==
    {k \in {"cellFormat", "returnFieldsByFieldId"} :
        \/ k = "cellFormat" /\ strip(Args.cell_format) # <<"json">>
        \/ k = "returnFieldsByFieldId" /\ Args.return_fields_by_field_id}

\* the query parameters list_records attaches for the arguments it was handed
ListRecordsParams ==
    {k \in {"cellFormat", "fields[]", "filterByFormula", "maxRecords", "offset", "pageSize", "recordMetadata[]", "returnFieldsByFieldId", "sort[]", "timeZone", "userLocale", "view"} :
        \/ k = "cellFormat" /\ strip(Args.cell_format) # <<"json">>
        \/ k = "pageSize" /\ Args.page_size # 100
        \/ k = "timeZone" /\ strip(Args.time_zone) # <<"utc">>
        \/ k = "returnFieldsByFieldId" /\ Args.return_fields_by_field_id
        \/ k = "maxRecords" /\ Args.max_records.t = "num" /\ Args.max_records.v > 0
        \/ k = "fields[]" /\ HasEntries(Args.fields)
        \/ k = "sort[]" /\ HasEntries(Args.sort)
        \/ k = "recordMetadata[]" /\ HasEntries(Args.record_metadata)
        \/ k = "filterByFormula" /\ strip(Args.filter_by_formula) # <<>>
        \/ k = "offset" /\ strip(Args.offset) # <<>>
        \/ k = "userLocale" /\ strip(Args.user_locale) # <<>>
        \/ k = "view" /\ strip(Args.view) # <<>>}

\* every optional argument of the invocation has its documented default
AllDefaults ==
    /\ Args.cell_format = <<"json">> /\ ~Args.return_fields_by_field_id
    /\ Tool = "list_records" =>
          [Args EXCEPT !.base_id = ListRecordsDefaults.base_id,
                       !.table_id_or_name = ListRecordsDefaults.table_id_or_name]
              = ListRecordsDefaults

\* C19: get_record and list_records attach a query parameter exactly when
\* its value differs from the default: cellFormat unless "json", pageSize
\* unless 100, timeZone unless "utc", returnFieldsByFieldId when true,
\* maxRecords when above 0, the others when non-empty; with every default
\* the request has no query parameters
C19_OnlyNonDefaultParams ==
    (Returned_ /\ Tool \in {"get_record", "list_records"} /\ calls # <<>>) =>
        /\ Tool = "get_record" => SentParams = GetRecordParams
        /\ Tool = "list_records" => SentParams = ListRecordsParams
        /\ AllDefaults => calls[1].request.params = NoParams

C19_Witness ==
    /\ Returned_ /\ Tool = "list_records" /\ calls # <<>>
    /\ Args.page_size = 50 /\ Args.max_records = Num(-1) /\ Args.time_zone = <<"utc">>
    /\ SentParams = {"pageSize"}


\* the first n record IDs as query parameters, each one trimmed
RECURSIVE TrimmedQuery(_, _)
TrimmedQuery(ids, n) ==
    IF n = 0 THEN <<>>
    ELSE TrimmedQuery(ids, n - 1) \o (IF n > 1 THEN <<"&">> ELSE <<>>)
         \o <<"records[]=">> \o strip(ids[n].v)

\* C20: a tool hands the transport client trimmed strings and decoded JSON
\* values; for delete_multiple_records this is the trimmed base ID and
\* table, and the decoded list of record IDs with every ID trimmed, so
\* that the request names each record by its ID without surrounding
\* whitespace
C20_DelegationTrimmed ==
    (Returned_ /\ Tool = "delete_multiple_records" /\ calls # <<>>) =>
        calls[1].request.url =
            airtable_client.base_url \o <<"/">> \o strip(Args.base_id) \o <<"/">>
            \o strip(Args.table_id_or_name) \o <<"?">>
            \o TrimmedQuery(RecordIds, Len(RecordIds))


\* the identifier a process whose hash seed is s gives a base name
PlaceholderId(s, name) == Str(<<"app", ToString(hash(s, name) % 1000000)>>)

\* "app" followed by a non-negative integer below 1000000
IsPlaceholderId(id) ==
    /\ id.t = "str" /\ Len(id.v) = 2 /\ id.v[1] = "app"
    /\ \E n \in 0..999999 : id.v[2] = ToString(n)

\* create_base got through validation and returned its data
BaseValidated == Returned_ /\ Tool = "create_base" /\ exit = "success"

\* C21: data.base_id of create_base is a function of the trimmed name
\* alone: whatever the tables, the workspace, the earlier invocations and
\* the process, it is the identifier every other process gives that name,
\* and it is "app" followed by an integer from 0 to 999999
C21_BaseIdFunctionOfName ==
    BaseValidated =>
        /\ IsPlaceholderId(envelope.data.base_id)
        /\ \A s \in HashSeeds : envelope.data.base_id = PlaceholderId(s, strip(Args.name))


\* the one call of the invocation ran into the timeout of requests
TimedOut ==
    /\ calls # <<>>
    /\ calls[1].response.t = "no_response"
    /\ calls[1].response.exc = "ReadTimeout"

\* C22: every outbound call carries the 10-second timeout and the headers
\* Authorization: Bearer <key> and Content-Type: application/json, and an
\* invocation whose call exceeds the timeout has returned a failure
\* envelope whose error names network_error or timeout_error
C22_CallsBounded ==
    (Returned_ /\ calls # <<>>) =>
        /\ \A i \in 1..Len(calls) :
              /\ calls[i].request.timeout = 10
              /\ calls[i].request.headers =
                    [Authorization |-> <<"Bearer ">> \o airtable_client.api_key,
                     ContentType |-> <<"application/json">>]
        /\ TimedOut =>
              /\ exit \in ReturnExits
              /\ envelope.successful = FALSE
              /\ envelope.data = EmptyDict
              /\ \/ Mentions(envelope.error, "network_error")
                 \/ Mentions(envelope.error, "timeout_error")

C22_Witness ==
    /\ Returned_ /\ Tool = "update_record" /\ TimedOut
    /\ calls[1].request.timeout = 10
    /\ Mentions(envelope.error, "network_error")


\* the number of entries of the JSON array a request parameter holds
RequestLen(text) == Len(text.doc.v)

\* the number of entries of a list member of the upstream's success body:
\* its length when the body has the member, 0 when it lacks it
ResponseLen(key) ==
    LET body == calls[1].response.text.doc
    IN  IF key \in DOMAIN body.v THEN Len(body.v[key].v) ELSE 0

\* C23: on success every computed count equals the length of the list it
\* summarises: tables_count (create_base), fields_count and
\* requested_count that of the decoded request array; records_count,
\* bases_count, comments_count, tables_count (get_base_schema),
\* created_records, updated_records and deleted_count that of the list in
\* the upstream response, and 0 when the response has no such list
C23_CountsAreLengths ==
    (Returned_ /\ exit = "success") =>
        /\ Tool = "create_base" => envelope.data.tables_count = RequestLen(Args.tables)
        /\ Tool = "create_table" => envelope.data.fields_count = RequestLen(Args.fields)
        /\ Tool = "delete_multiple_records" =>
              /\ envelope.data.requested_count = RequestLen(Args.record_ids)
              /\ envelope.data.deleted_count = ResponseLen("records")
        /\ Tool = "list_records" => envelope.data.records_count = ResponseLen("records")
        /\ Tool = "list_bases" => envelope.data.bases_count = ResponseLen("bases")
        /\ Tool = "list_comments" => envelope.data.comments_count = ResponseLen("comments")
        /\ Tool = "get_base_schema" => envelope.data.tables_count = ResponseLen("tables")
        /\ Tool = "create_multiple_records" =>
              envelope.data.created_records = ResponseLen("records")
        /\ Tool = "update_multiple_records" =>
              envelope.data.updated_records = ResponseLen("records")

C23_Witness ==
    /\ Returned_ /\ exit = "success" /\ Tool = "delete_multiple_records"
    /\ envelope.data.requested_count = 1
    /\ envelope.data.deleted_count = 2


\* the tools that check the entries of a JSON array one by one: the
\* parameter that holds the array and the keys every entry must have
EntryChecks ==
    [create_base |-> <<"tables", {"name", "fields"}>>,
     create_table |-> <<"fields", {"name", "type"}>>,
     create_multiple_records |-> <<"records", {"fields"}>>,
     update_multiple_records |-> <<"records", {"id", "fields"}>>,
     delete_multiple_records |-> <<"record_ids", {}>>]

\* the entries of the array the tool checks one by one
CheckedEntries == Args[EntryChecks[Tool][1]].doc.v

\* the i-th entry fails the tool's per-entry check
Offends(i) ==
    LET entry == CheckedEntries[i]
    IN  IF Tool = "delete_multiple_records"
        THEN ~(entry.t = "str" /\ ~is_blank(entry.v))
        ELSE Lacks(entry, EntryChecks[Tool][2])

\* the i-th JSON parameter of the call is not JSON or has the wrong shape
JsonBadAt(i) ==
    LET q == JsonShape[Tool][i]
    IN  Args[q[1]].k = "malformed" \/ WrongShape(Args[q[1]], q[2])

\* every JSON parameter of the call is absent or fine
JsonFine == JsonFineBefore(Len(JsonShape[Tool]) + 1)

BlankRejection ==
    \E i \in 1..Len(Required[Tool]) :
        /\ BlankAt(i) /\ FilledBefore(i)
        /\ envelope = Envelope(EmptyDict, <<Required[Tool][i][2]>>, FALSE)

\* C25: for every tool but create_base, an invocation with a blank required
\* string leaves the shared client as it was, does not fail on a missing
\* credential and sends nothing; its envelope is the rejection of the first
\* blank string, which the arguments alone determine, so that it is the
\* same with and without the credential
C25_RejectionLeavesClient ==
    [][(pc = "idle" /\ pc' = "returned" /\ Tool' # "create_base" /\ ~RequiredFilled') =>
          /\ airtable_client' = airtable_client
          /\ BlankRejection'
          /\ raised' = NoException
          /\ calls' = <<>>]_vars

\* a rejected get_base_schema in a process that has the credential and has
\* built no client
C25_Witness ==
    /\ Returned_ /\ Tool = "get_base_schema" /\ ~RequiredFilled
    /\ CredentialPresent /\ airtable_client = None
    /\ exit = "validation"


\* the string arguments a tool copies into the data of its envelope
EchoedStrings ==
    {"base_id", "table_id_or_name", "table_id", "record_id", "row_comment_id", "name",
     "text", "workspace_id", "type", "description", "cell_format"}

Echoed == DOMAIN Args \cap DOMAIN envelope.data \cap EchoedStrings

\* the part of a URL before its query string
RECURSIVE PathOf(_)
PathOf(url) ==
    IF url = <<>> \/ Head(url) = "?" THEN <<>> ELSE <<Head(url)>> \o PathOf(Tail(url))

\* the string occurs in the URL as a whole path segment
IsSegment(url, x) ==
    \E i \in 1..Len(url) :
        /\ i + Len(x) <= Len(url) + 1
        /\ SubSeq(url, i, i + Len(x) - 1) = x
        /\ i > 1 /\ url[i - 1] # " "
        /\ i + Len(x) <= Len(url) => url[i + Len(x)] # " "

\* the identifiers a tool puts into the path of its request
PathStrings == {"base_id", "table_id_or_name", "table_id", "record_id", "row_comment_id"}

\* C26: a success envelope echoes the string arguments exactly as the
\* caller gave them, surrounding whitespace included, while the request
\* carries their trimmed values: the identifiers in its path, name and
\* text in its body; for an argument with surrounding whitespace the echo
\* differs from what was sent
C26_EchoUntrimmed ==
    (Returned_ /\ exit = "success") =>
        /\ \A k \in Echoed : envelope.data[k] = Args[k]
        /\ calls # <<>> =>
              LET request == calls[1].request
              IN  /\ \A k \in DOMAIN Args \cap PathStrings :
                        /\ IsSegment(PathOf(request.url), strip(Args[k]))
                        /\ Args[k] # strip(Args[k]) => ~IsSegment(PathOf(request.url), Args[k])
                  /\ Tool = "create_comment" => request.json.text = strip(Args.text)
                  /\ Tool \in {"create_table", "create_field"} =>
                        request.json.name = Str(strip(Args.name))

\* a comment created with every argument padded: the envelope has the
\* padded values, the request the trimmed ones
C26_Witness ==
    /\ Returned_ /\ Tool = "create_comment" /\ exit = "success"
    /\ Args.base_id = <<" ", "a", " ">> /\ Args.text = <<" ", "a", " ">>
    /\ envelope.data.base_id = <<" ", "a", " ">>
    /\ envelope.data.text = <<" ", "a", " ">>
    /\ calls[1].request.json.text = <<"a">>


\* a bulk tool given filled-in required strings and a JSON array whose
\* entries all pass the per-entry check
BulkWellFormed ==
    /\ Tool \in DOMAIN EntryChecks \ {"create_base", "create_table"}
    /\ RequiredFilled /\ JsonFine
    /\ \A i \in 1..Len(CheckedEntries) : ~Offends(i)

\* C27: create_multiple_records and update_multiple_records forward a
\* records array of any length, the empty one and one of more than 10
\* records included, whole and in one call; delete_multiple_records alone
\* turns down an array of no or of more than 10 entries
C27_OnlyDeleteBoundsLength ==
    (Returned_ /\ Configured /\ BulkWellFormed) =>
        /\ Tool \in {"create_multiple_records", "update_multiple_records"} =>
              /\ Len(calls) = 1
              /\ calls[1].request.json = [records |-> Args.records.doc]
              /\ exit # "validation"
        /\ Tool = "delete_multiple_records" =>
              (Len(CheckedEntries) \in 1..10 <=> calls # <<>>)

\* eleven records created in one call
C27_Witness ==
    /\ Returned_ /\ Tool = "create_multiple_records" /\ Configured /\ BulkWellFormed
    /\ Len(Args.records.doc.v) = 11
    /\ Len(calls) = 1
    /\ Len(calls[1].request.json.records.v) = 11


\* the caller gave create_field options that are not empty
OptionsGiven == Args.options.t = "obj" /\ DOMAIN Args.options.v # {}

\* the field types of the model's arguments that take options
TakesOptions(type) == type = <<"singleSelect">>

\* C28: the body of create_field's request has 'options' exactly when the
\* options are non-empty and the (trimmed) type is in the allow-list, which
\* lacks the default singleLineText, and has 'description' exactly when the
\* description is non-empty after trimming; with the options left out the
\* call still goes out and the success envelope gives the caller's options
C28_CreateFieldBody ==
    (Returned_ /\ Tool = "create_field" /\ calls # <<>>) =>
        LET body == calls[1].request.json
        IN  /\ "options" \in DOMAIN body <=> (OptionsGiven /\ TakesOptions(strip(Args.type)))
            /\ "options" \in DOMAIN body => body.options = Args.options
            /\ "description" \in DOMAIN body <=> strip(Args.description) # <<>>
            /\ "description" \in DOMAIN body => body.description = Str(strip(Args.description))
            /\ <<"singleLineText">> \notin FieldTypesWithOptions
            /\ {"name", "type"} \subseteq DOMAIN body
            /\ (exit = "success" /\ OptionsGiven) => envelope.data.options = Args.options

\* a field of the default type created with options: they are left out of
\* the request and returned in the envelope
C28_Witness ==
    /\ Returned_ /\ Tool = "create_field" /\ exit = "success"
    /\ Args.type = <<"singleLineText">> /\ OptionsGiven
    /\ Len(calls) = 1 /\ "options" \notin DOMAIN calls[1].request.json
    /\ envelope.data.options = Args.options


\* a step in which a tool ran and got as far as asking for the client
AsksForClient == pc = "idle" /\ pc' = "returned" /\ (exit' # "validation" \/ Tool' = "create_base")

\* C29: a failed acquisition of the client is not remembered: as long as
\* the credential is absent an invocation that needs the client leaves the
\* global unset and ends with the configuration error, each time anew, and
\* the first such invocation once the credential is there builds the
\* client with it and goes on as usual
C29_FailureNotSticky ==
    [][(AsksForClient /\ airtable_client = None) =>
          /\ ~CredentialPresent => (airtable_client' = None /\ ConfigurationError')
          /\ CredentialPresent =>
                /\ airtable_client' = AirtableClient__init__(env_api_key.value, 1)
                /\ raised'.type # "ValueError"]_vars

\* the first client of a process that started without its credential:
\* built with the key that was provided later, in an invocation that
\* went through
C29_Witness ==
    /\ Returned_ /\ Tool = "list_bases" /\ exit = "success"
    /\ airtable_client # None /\ airtable_client.nth = 1
    /\ airtable_client.api_key = LaterKey


\* coroutine t has started and has not returned
InProgress(t) == tasks[t].at \notin {"ready", "done"}

\* C30: invocations scheduled on one event loop do not interleave: at most
\* one coroutine is between its entry and its return, and it holds the
\* thread; so no coroutine starts while another is between the
\* 'is None' test and the assignment, or is waiting on its outbound call,
\* and the client is constructed at most once
C30_NoInterleaving ==
    /\ Cardinality({t \in Tasks : InProgress(t)}) <= 1
    /\ \A t \in Tasks : InProgress(t) => running = t
    /\ \A t \in Tasks :
          tasks[t].at \in {"construct", "waiting"} =>
              \A u \in Tasks \ {t} : tasks[u].at \in {"ready", "done"}
    /\ constructed(airtable_client) <= 1

\* one invocation waits on its call while another request, scheduled on
\* the loop, has not been started
C30_Witness ==
    /\ tasks[1].at = "waiting" /\ running = 1
    /\ tasks[2].at = "ready"

====
